---------------------------- MODULE Spec2Model ----------------------------
(***************************************************************************)
(* Model of the WhatsApp chat analyzer: ChatParser.parse (the line-oriented *)
(* transcript parser) and ChatAnalyzer (the report functions and queries)  *)
(* of chat_parser.py.                                                       *)
(*                                                                          *)
(* Text is modelled as sequences of characters; a character is a one-      *)
(* character string, except the invisible bidi controls, which are named   *)
(* by their code point ("U+200E").  A datetime is the record of its fields *)
(* (year, month, day, hour, minute, second), like Python's datetime.       *)
(***************************************************************************)
EXTENDS Integers, Sequences, FiniteSets, TLC

VARIABLES
    file,       \* ChatParser: the lines of the file at self.file_path
    messages,   \* ChatParser: self.messages
    returned,   \* ChatParser: the value each parse() call returned, as it was on return
    amessages,  \* ChatAnalyzer: self.messages
    op,         \* ChatAnalyzer: the last operation called and its arguments
    result,     \* ChatAnalyzer: what that operation returned (or the exception it raised)
    current_chat_file,  \* web layer: _current_chat_file, <<>> for None, <<path>> else
    analysis_cache,     \* web layer: _analysis_cache, <<>> for None
    analyzer_instance,  \* web layer: _analyzer_instance, <<>> for None
    messages_cache,     \* web layer: _messages_cache, <<>> for None
    uploads,    \* web layer: the files saved in UPLOAD_FOLDER; the path of a file is its place
    threads,    \* web layer: the requests being handled, each with its locals and position
    started,    \* web layer: the number of requests received
    response    \* web layer: the response sent last

\* the state of the parser and the analyzer
corevars == <<file, messages, returned, amessages, op, result>>

\* the state of the web layer
webvars == <<current_chat_file, analysis_cache, analyzer_instance, messages_cache,
             uploads, threads, started, response>>

vars == <<corevars, webvars>>

\* the most requests handled at a time, and the most requests received
MaxInFlight == 2
MaxRequests == 4

\* the most files uploaded
MaxUploads == 2

\* a thread that handles no request
Idle == [kind |-> "idle"]

\* the web layer after the module is loaded (lines 19-24), no request received
WebIdle ==
    /\ current_chat_file = <<>>
    /\ analysis_cache = <<>>
    /\ analyzer_instance = <<>>
    /\ messages_cache = <<>>
    /\ uploads = <<>>
    /\ threads = [t \in 1 .. MaxInFlight |-> Idle]
    /\ started = 0
    /\ response = <<>>

----------------------------------------------------------------------------
(* Characters and strings                                                   *)

LRM == "U+200E"
RLM == "U+200F"
LRE == "U+202A"
RLE == "U+202B"
PDF == "U+202C"
LRO == "U+202D"
RLO == "U+202E"
LRI == "U+2066"
RLI == "U+2067"
FSI == "U+2068"
PDI == "U+2069"

\* str.strip() with no argument removes whitespace; of the characters the
\* model uses, the space and the tab are whitespace (the bidi controls are not).
Whitespace == {" ", "\t"}

Digit == {"0", "1", "2", "3", "4", "5", "6", "7", "8", "9"}

DigitVal(c) ==
    CASE c = "0" -> 0 [] c = "1" -> 1 [] c = "2" -> 2 [] c = "3" -> 3
      [] c = "4" -> 4 [] c = "5" -> 5 [] c = "6" -> 6 [] c = "7" -> 7
      [] c = "8" -> 8 [] c = "9" -> 9

\* s[from..] (1-based), empty when from is past the end
Drop(s, from) == SubSeq(s, from, Len(s))

\* the number of leading characters of s, from position from on, that are in set
RECURSIVE SpanLen(_, _, _)
SpanLen(s, from, set) ==
    IF from <= Len(s) /\ s[from] \in set THEN 1 + SpanLen(s, from + 1, set) ELSE 0

\* the number of trailing characters of s that are in set
RECURSIVE TailSpanLen(_, _)
TailSpanLen(s, set) ==
    IF Len(s) > 0 /\ s[Len(s)] \in set
    THEN 1 + TailSpanLen(SubSeq(s, 1, Len(s) - 1), set) ELSE 0

\* str.lstrip(chars): chars is a set of characters, not a pattern
LStrip(s, chars) == Drop(s, 1 + SpanLen(s, 1, chars))

\* str.strip()
Strip(s) ==
    LET t == LStrip(s, Whitespace)
    IN  SubSeq(t, 1, Len(t) - TailSpanLen(t, Whitespace))

\* ' '.join(parts)
RECURSIVE Join(_)
Join(parts) ==
    IF Len(parts) = 0 THEN <<>>
    ELSE IF Len(parts) = 1 THEN parts[1]
    ELSE parts[1] \o <<" ">> \o Join(Tail(parts))

\* StripChars without U+200E: the first character of the lstrip argument lost
StripChars_NoLRM == {RLM, LRE, "-", RLO, LRI, PDI}

\* the argument of lstrip on line 35, character by character: a "-" between
\* two characters of a str.lstrip argument is the character "-", not a range
StripChars == {LRM, RLM, LRE, "-", RLO, LRI, PDI}

\* line 35: line.lstrip('...').strip()
CleanLine(line) == Strip(LStrip(line, StripChars))

----------------------------------------------------------------------------
(* The two patterns (re.match: anchored at the start of the line)           *)

NoMatch == [matched |-> FALSE]

AllDigits(s, from, n) ==
    /\ from + n - 1 <= Len(s)
    /\ \A i \in from .. (from + n - 1) : s[i] \in Digit

\* the position of the first ":" of s at or after from, 0 when there is none
RECURSIVE FirstColon(_, _)
FirstColon(s, from) ==
    IF from > Len(s) THEN 0
    ELSE IF s[from] = ":" THEN from
    ELSE FirstColon(s, from + 1)

\* \[(\d{2}\.\d{2}\.\d{4}),\s*(\d{2}:\d{2}:\d{2})\]\s*([^:]+):<skip>*(.*)
\* matched at position start of s; skip is the set the separator after the
\* colon consumes (\s for MESSAGE_PATTERN, [U+200E\s] for SYSTEM_PATTERN).
\* ([^:]+) is greedy and must be followed by ":", so it ends at the first ":"
\* after the bracket; \s* before it is greedy and gives back one character
\* only when everything up to that ":" is whitespace.
HeaderAt(s, start, skip) ==
    LET b == start
        t == b + 12 + SpanLen(s, b + 12, Whitespace)   \* first digit of the time
        r == t + 9                                      \* first character after "]"
        c == FirstColon(s, r)
        ws == SpanLen(s, r, Whitespace)
        a == IF r + ws < c THEN r + ws ELSE c - 1       \* where ([^:]+) starts
        x == c + 1 + SpanLen(s, c + 1, skip)            \* where (.*) starts
    IN  IF /\ b <= Len(s) /\ s[b] = "["
           /\ AllDigits(s, b + 1, 2) /\ b + 3 <= Len(s) /\ s[b + 3] = "."
           /\ AllDigits(s, b + 4, 2) /\ b + 6 <= Len(s) /\ s[b + 6] = "."
           /\ AllDigits(s, b + 7, 4) /\ b + 11 <= Len(s) /\ s[b + 11] = ","
           /\ AllDigits(s, t, 2) /\ t + 2 <= Len(s) /\ s[t + 2] = ":"
           /\ AllDigits(s, t + 3, 2) /\ t + 5 <= Len(s) /\ s[t + 5] = ":"
           /\ AllDigits(s, t + 6, 2) /\ t + 8 <= Len(s) /\ s[t + 8] = "]"
           /\ c > r
        THEN [matched |-> TRUE,
              date_str |-> SubSeq(s, b + 1, b + 10),
              time_str |-> SubSeq(s, t, t + 7),
              author |-> SubSeq(s, a, c - 1),
              text |-> Drop(s, x)]
        ELSE NoMatch

\* MESSAGE_PATTERN.match(line)
MESSAGE_PATTERN(line) == HeaderAt(line, 1, Whitespace)

\* SYSTEM_PATTERN.match(line): [U+200E\s]* before the bracket and after the colon
SYSTEM_PATTERN(line) ==
    HeaderAt(line, 1 + SpanLen(line, 1, {LRM} \cup Whitespace), {LRM} \cup Whitespace)

----------------------------------------------------------------------------
(* datetime                                                                 *)

Num2(s, i) == 10 * DigitVal(s[i]) + DigitVal(s[i + 1])

IsLeap(y) == (y % 4 = 0) /\ ((y % 100 # 0) \/ (y % 400 = 0))

DaysInMonth(y, m) ==
    IF m = 2 THEN (IF IsLeap(y) THEN 29 ELSE 28)
    ELSE IF m \in {4, 6, 9, 11} THEN 30 ELSE 31

\* days before the first of month m in year y
RECURSIVE DaysBeforeMonth(_, _)
DaysBeforeMonth(y, m) ==
    IF m = 1 THEN 0 ELSE DaysBeforeMonth(y, m - 1) + DaysInMonth(y, m - 1)

\* date.toordinal(): 0001-01-01 is day 1
ToOrdinal(y, m, d) ==
    LET p == y - 1
    IN  p * 365 + (p \div 4) - (p \div 100) + (p \div 400) + DaysBeforeMonth(y, m) + d

\* Weekday counted from Sunday: isoweekday() % 7 taken for weekday()
Weekday_FromSunday(dt) == ToOrdinal(dt.year, dt.month, dt.day) % 7

\* datetime.weekday(): 0 = Monday
Weekday(dt) == (ToOrdinal(dt.year, dt.month, dt.day) + 6) % 7

\* seconds from 2000-01-01T00:00:00, the scale on which datetimes are
\* subtracted and compared (datetimes within 68 years of it keep their
\* seconds within the integers of the model checker)
Seconds(dt) ==
    (ToOrdinal(dt.year, dt.month, dt.day) - ToOrdinal(2000, 1, 1)) * 86400
        + dt.hour * 3600 + dt.minute * 60 + dt.second

\* datetime.strptime(f"{date_str} {time_str}", "%d.%m.%Y %H:%M:%S"): the
\* datetime, or ValueError when the fields are not a calendar date and time
Strptime(date_str, time_str) ==
    LET d == Num2(date_str, 1)
        m == Num2(date_str, 4)
        y == 100 * Num2(date_str, 7) + Num2(date_str, 9)
        H == Num2(time_str, 1)
        M == Num2(time_str, 4)
        S == Num2(time_str, 7)
    IN  IF /\ y >= 1 /\ m >= 1 /\ m <= 12
           /\ d >= 1 /\ d <= DaysInMonth(y, m)
           /\ H <= 23 /\ M <= 59 /\ S <= 59
        THEN [ok |-> TRUE,
              dt |-> [year |-> y, month |-> m, day |-> d,
                      hour |-> H, minute |-> M, second |-> S]]
        ELSE [ok |-> FALSE]

\* the message dict of lines 55-63 and 83-91
MakeMessage(dt, author, text) ==
    [datetime |-> dt,
     date |-> [year |-> dt.year, month |-> dt.month, day |-> dt.day],
     time |-> [hour |-> dt.hour, minute |-> dt.minute, second |-> dt.second],
     hour |-> dt.hour,
     weekday |-> Weekday(dt),
     author |-> author,
     text |-> text]

----------------------------------------------------------------------------
(* ChatParser.parse                                                         *)

\* The loop's locals and self.messages.  current_message is a dict object:
\* once appended to self.messages it is the same object there, so alias holds
\* the positions of self.messages that are the current_message object.
LoopStart(selfMessages) ==
    [has |-> FALSE,          \* current_message is not None
     cur |-> <<>>,           \* current_message
     text |-> <<>>,          \* current_text
     msgs |-> selfMessages,  \* self.messages
     alias |-> {}]

\* lines 44-45 and 98-99: current_message['text'] = ' '.join(current_text).strip()
\* and self.messages.append(current_message)
CloseCurrent(st) ==
    LET closed == [st.cur EXCEPT !.text = Strip(Join(st.text))]
        upd == [i \in 1 .. Len(st.msgs) |->
                    IF i \in st.alias THEN closed ELSE st.msgs[i]]
    IN  [st EXCEPT !.cur = closed,
                   !.msgs = Append(upd, closed),
                   !.alias = st.alias \cup {Len(st.msgs) + 1}]

\* OnHeader without lines 43-45: the message in progress is not saved when
\* the next header line arrives
OnHeader_NoSave(st, line, m) ==
    LET p == Strptime(m.date_str, m.time_str)
        text == Strip(m.text)
    IN  IF p.ok
        THEN [st EXCEPT !.has = TRUE,
                        !.cur = MakeMessage(p.dt, Strip(m.author), text),
                        !.text = IF text # <<>> THEN <<text>> ELSE <<>>,
                        !.alias = {}]
        ELSE IF st.has
             THEN [st EXCEPT !.text = Append(st.text, line)]
             ELSE st

\* lines 41-69: the line matched MESSAGE_PATTERN
OnHeader(st, line, m) ==
    LET saved == IF st.has THEN CloseCurrent(st) ELSE st
        p == Strptime(m.date_str, m.time_str)
        text == Strip(m.text)
    IN  IF p.ok
        THEN [saved EXCEPT !.has = TRUE,
                           !.cur = MakeMessage(p.dt, Strip(m.author), text),
                           !.text = IF text # <<>> THEN <<text>> ELSE <<>>,
                           !.alias = {}]
        ELSE IF saved.has
             THEN [saved EXCEPT !.text = Append(saved.text, line)]
             ELSE saved

\* lines 70-94: the line did not match MESSAGE_PATTERN
OnOther(st, line) ==
    LET m == SYSTEM_PATTERN(line)
        p == Strptime(m.date_str, m.time_str)
        text == Strip(m.text)
    IN  IF st.has
        THEN [st EXCEPT !.text = Append(st.text, line)]
        ELSE IF m.matched /\ p.ok
             THEN [st EXCEPT !.has = TRUE,
                             !.cur = MakeMessage(p.dt, Strip(m.author),
                                                 IF text # <<>> THEN text ELSE line),
                             !.text = <<>>,
                             !.alias = {}]
             ELSE st

\* lines 33-94: one iteration of the loop over the file's lines
ParseLine(st, raw) ==
    LET line == CleanLine(raw)
        m == MESSAGE_PATTERN(line)
    IN  IF line = <<>> THEN st
        ELSE IF m.matched THEN OnHeader(st, line, m)
        ELSE OnOther(st, line)

RECURSIVE ParseLoop(_, _, _)
ParseLoop(st, lines, i) ==
    IF i > Len(lines) THEN st
    ELSE ParseLoop(ParseLine(st, lines[i]), lines, i + 1)

\* lines 25-101: self.messages after parse() over the file's lines, which is
\* also the value parse() returns
ParseMessages(selfMessages, lines) ==
    LET st == ParseLoop(LoopStart(selfMessages), lines, 1)
    IN  IF st.has THEN CloseCurrent(st).msgs ELSE st.msgs

----------------------------------------------------------------------------
(* Transcripts: the files the parser is run on                              *)

DigitChar(n) ==
    CASE n = 0 -> "0" [] n = 1 -> "1" [] n = 2 -> "2" [] n = 3 -> "3"
      [] n = 4 -> "4" [] n = 5 -> "5" [] n = 6 -> "6" [] n = 7 -> "7"
      [] n = 8 -> "8" [] n = 9 -> "9"

Fmt2(n) == <<DigitChar((n \div 10) % 10), DigitChar(n % 10)>>

\* "[DD.MM.YYYY, HH:MM:SS]" as the export tool writes it
Bracket(s) ==
    <<"[">> \o Fmt2(s.day) \o <<".">> \o Fmt2(s.month) \o <<".">>
        \o Fmt2(s.year \div 100) \o Fmt2(s.year) \o <<",", " ">>
        \o Fmt2(s.hour) \o <<":">> \o Fmt2(s.minute) \o <<":">> \o Fmt2(s.second)
        \o <<"]">>

\* "[DD.MM.YYYY, HH:MM:SS] Author: Text"
HeaderLine(s, author, text) ==
    Bracket(s) \o <<" ">> \o author \o <<":", " ">> \o text

Stamp(d, m, y, H, M, S) ==
    [day |-> d, month |-> m, year |-> y, hour |-> H, minute |-> M, second |-> S]

\* Calendar dates and times, each with its day of the week from the calendar
\* (0 = Monday): 1 Jan 2024 was a Monday, 29 Feb 2024 a Thursday, 31 Dec 1999
\* a Friday, 28 Feb 1900 a Wednesday.
ValidStamps ==
    {[s |-> Stamp(1, 1, 2024, 10, 0, 0), wd |-> 0],
     [s |-> Stamp(29, 2, 2024, 23, 59, 59), wd |-> 3],
     [s |-> Stamp(31, 12, 1999, 0, 5, 30), wd |-> 4],
     [s |-> Stamp(28, 2, 1900, 9, 0, 7), wd |-> 2]}

\* Bracketed prefixes of the right shape that are no calendar date or time
InvalidStamps ==
    {Stamp(31, 2, 2024, 10, 0, 0), Stamp(29, 2, 1900, 10, 0, 0),
     Stamp(1, 13, 2024, 10, 0, 0), Stamp(0, 1, 2024, 10, 0, 0),
     Stamp(1, 1, 2024, 25, 0, 0), Stamp(1, 1, 2024, 10, 60, 0),
     Stamp(1, 1, 2024, 10, 0, 60), Stamp(1, 1, 0, 10, 0, 0)}

Invisible == {LRM, RLM, LRE, RLE, PDF, LRO, RLO, LRI, RLI, FSI, PDI}

S1 == Stamp(1, 1, 2024, 10, 0, 0)
S2 == Stamp(29, 2, 2024, 23, 59, 59)
SBad == Stamp(31, 2, 2024, 10, 0, 0)

HdrA == HeaderLine(S1, <<"A">>, <<"h", "i">>)
HdrB == HeaderLine(S2, <<"B", " ">>, <<"y", "o", ":", " ", "x">>)
HdrBad == HeaderLine(SBad, <<"B">>, <<"x">>)
HdrMedia == HeaderLine(S2, <<"A">>, <<>>)
\* a line only SYSTEM_PATTERN matches: whitespace, then U+200E, then a header
SysLine == <<" ", LRM>> \o HeaderLine(S2, <<"B">>, <<LRM, "i", "m", "g">>)
Cont1 == <<"o", "k">>
Cont2 == <<LRM, " ", "s", "e", "e", " ">>
DashLine == <<"-", "b">>
Blank == <<" ", "\t">>

\* The lines transcripts are made of
LinePool ==
    {HdrA, HdrB, HdrBad, HdrMedia, <<LRM>> \o HdrA, <<RLE>> \o HdrB,
     SysLine, Cont1, Cont2, DashLine, Blank}

MaxLines == 3
MaxParses == 2

RECURSIVE SeqsUpTo(_, _)
SeqsUpTo(S, n) ==
    IF n = 0 THEN {<<>>}
    ELSE LET shorter == SeqsUpTo(S, n - 1)
         IN  shorter \cup {Append(q, x) : q \in {r \in shorter : Len(r) = n - 1}, x \in S}

Transcripts == SeqsUpTo(LinePool, MaxLines)

\* Author and Text parts of a header line, each with what it is once the
\* whitespace around it is trimmed
Authors ==
    {[raw |-> <<"A">>, trimmed |-> <<"A">>],
     [raw |-> <<"B", "o", " ">>, trimmed |-> <<"B", "o">>],
     [raw |-> <<" ", "C", " ", "d", "\t">>, trimmed |-> <<"C", " ", "d">>],
     [raw |-> <<"-", "E">>, trimmed |-> <<"-", "E">>],
     [raw |-> <<RLE, "F">>, trimmed |-> <<RLE, "F">>]}

Texts ==
    {[raw |-> <<"h", "i">>, trimmed |-> <<"h", "i">>],
     [raw |-> <<>>, trimmed |-> <<>>],
     [raw |-> <<" ", "x", ":", " ", "y", " ">>, trimmed |-> <<"x", ":", " ", "y">>],
     [raw |-> <<LRM, "i", "m", "g">>, trimmed |-> <<LRM, "i", "m", "g">>],
     [raw |-> <<"\t", "-", "[", "]", " ", " ">>, trimmed |-> <<"-", "[", "]">>]}

\* A file that is one well-formed header line and nothing else
SingleHeaders ==
    {<<HeaderLine(v.s, a.raw, t.raw)>> : v \in ValidStamps, a \in Authors, t \in Texts}

\* A file whose only line has the header shape but no calendar date or time
SingleInvalid == {<<HeaderLine(s, <<"A">>, <<"x">>)>> : s \in InvalidStamps}

MaxRun == 2

\* Runs of invisible characters of up to MaxRun characters
Runs == SeqsUpTo(Invisible, MaxRun)

\* A file whose last line is a valid header line behind a run of invisible
\* characters, alone or after another message's header
Prefixed ==
    {<<r \o HdrA>> : r \in Runs} \cup {<<HdrB, r \o HdrA>> : r \in Runs}

Files == Transcripts \cup SingleHeaders \cup SingleInvalid \cup Prefixed

----------------------------------------------------------------------------
(* The parser as a state machine                                            *)

AnalyzerIdle ==
    /\ amessages = <<>>
    /\ op = <<"none">>
    /\ result = <<>>

\* ChatParser(file_path): self.messages = [] (lines 21-23), over any file
InitParser ==
    /\ file \in Files
    /\ messages = <<>>
    /\ returned = <<>>
    /\ AnalyzerIdle
    /\ WebIdle

\* parser.parse() (lines 25-101)
Parse ==
    /\ Len(returned) < MaxParses
    /\ messages' = ParseMessages(messages, file)
    /\ returned' = Append(returned, messages')
    /\ UNCHANGED <<file, amessages, op, result, webvars>>

ParserNext == Parse

ParserSpec == InitParser /\ [][ParserNext]_vars

----------------------------------------------------------------------------
(* Python values in the analyzer's results                                  *)
(*                                                                          *)
(* A dict is a function on its keys (the order of the keys is not kept), a  *)
(* list a sequence, {} and [] the empty function <<>>.  round(x, k) is the  *)
(* integer x * 10^k rounded, so 2.67 rounded to two decimals is 267.        *)
(* isoformat() strings are sequences of characters like all text.  What an  *)
(* expression that can raise evaluates to is a record: Value(v) when it     *)
(* gave v, and the exception when it raised.                                *)

ZeroDivisionError == [raised |-> "ZeroDivisionError"]
ValueError == [raised |-> "ValueError"]
Value(v) == [raised |-> "None", value |-> v]
Raised(x) == x.raised # "None"

\* what a function returns whose parts that can raise are listed in parts:
\* the exception of a part that raised, and else its return value r
Returns(r, parts) ==
    IF \E i \in 1 .. Len(parts) : Raised(parts[i])
    THEN parts[CHOOSE i \in 1 .. Len(parts) : Raised(parts[i])]
    ELSE Value(r)

RECURSIVE Pow10(_)
Pow10(k) == IF k = 0 THEN 1 ELSE 10 * Pow10(k - 1)

\* n / d cut off after k decimals instead of rounded
Rounded_Floor(n, d, k) == (n * Pow10(k)) \div d

\* round(n / d, k) for integers n and d > 0: round() rounds to the
\* nearest, and a tie to the even neighbour.  The code rounds a float: a
\* quotient of counts that is a tie has a power of two as denominator and is
\* exact as a float, so it is rounded as here.  A tie among seconds / 3600
\* or among averages of rounded hours is not exact as a float, and the code
\* rounds it to the side its float lies on, which can be the odd neighbour.
Rounded(n, d, k) ==
    LET q == n * Pow10(k)
        lo == q \div d
        rem == q % d
    IN  IF 2 * rem > d THEN lo + 1
        ELSE IF 2 * rem < d THEN lo
        ELSE IF lo % 2 = 0 THEN lo ELSE lo + 1

\* round(n / d, k) where d can be 0: n / d raises
Round(n, d, k) == IF d = 0 THEN ZeroDivisionError ELSE Value(Rounded(n, d, k))

\* round(n / d * 100, k)
Percent(n, d, k) == Round(n * 100, d, k)

RECURSIVE SumSeq(_)
SumSeq(q) == IF q = <<>> THEN 0 ELSE q[1] + SumSeq(Tail(q))

\* the values of q, each once, in the order of their first occurrence: the
\* key order of a dict counted up over q
RECURSIVE FirstSeen(_)
FirstSeen(q) ==
    IF q = <<>> THEN <<>>
    ELSE LET front == FirstSeen(SubSeq(q, 1, Len(q) - 1))
             x == q[Len(q)]
         IN  IF \E i \in 1 .. Len(front) : front[i] = x THEN front ELSE Append(front, x)

Range(q) == {q[i] : i \in 1 .. Len(q)}

\* the least and the greatest of a non-empty set of integers
MinOf(S) == CHOOSE x \in S : \A y \in S : x <= y
MaxOf(S) == CHOOSE x \in S : \A y \in S : x >= y

\* min(S) and max(S) of a collection of integers; both raise ValueError on
\* an empty one
PyMin(S) == IF S = {} THEN ValueError ELSE Value(MinOf(S))
PyMax(S) == IF S = {} THEN ValueError ELSE Value(MaxOf(S))

\* sorted(...) / list.sort(...) on a list of <<key, value>> pairs: stable,
\* ascending by key
RECURSIVE InsertPair(_, _)
InsertPair(sorted, x) ==
    IF sorted = <<>> THEN <<x>>
    ELSE IF sorted[Len(sorted)][1] <= x[1] THEN Append(sorted, x)
    ELSE Append(InsertPair(SubSeq(sorted, 1, Len(sorted) - 1), x), sorted[Len(sorted)])

RECURSIVE SortPairs(_)
SortPairs(q) ==
    IF q = <<>> THEN <<>>
    ELSE InsertPair(SortPairs(SubSeq(q, 1, Len(q) - 1)), q[Len(q)])

\* the values of a list of <<key, value>> pairs sorted by key, ascending
SortedValues(pairs) == LET q == SortPairs(pairs) IN [i \in 1 .. Len(q) |-> q[i][2]]

\* the same with reverse=True: descending by key, equal keys in their order
SortedValuesDesc(pairs) ==
    SortedValues([i \in 1 .. Len(pairs) |-> <<0 - pairs[i][1], pairs[i][2]>>])

\* q[:n]
Take(q, n) == SubSeq(q, 1, IF n < Len(q) THEN n ELSE Len(q))

\* date.toordinal() of a date or datetime record: the order of dates
DateOrd(d) == ToOrdinal(d.year, d.month, d.day)

\* date.isoformat(): "YYYY-MM-DD"
IsoDate(d) ==
    Fmt2(d.year \div 100) \o Fmt2(d.year) \o <<"-">> \o Fmt2(d.month) \o <<"-">> \o Fmt2(d.day)

\* time.isoformat(): "HH:MM:SS"
IsoTime(t) == Fmt2(t.hour) \o <<":">> \o Fmt2(t.minute) \o <<":">> \o Fmt2(t.second)

\* datetime.isoformat(): "YYYY-MM-DDTHH:MM:SS"
IsoDateTime(dt) == IsoDate(dt) \o <<"T">> \o IsoTime(dt)

\* strftime('%Y-%m')
YearMonth(dt) == Fmt2(dt.year \div 100) \o Fmt2(dt.year) \o <<"-">> \o Fmt2(dt.month)

\* Two isoformat strings of datetimes compare as the datetimes do: the
\* fields are zero-padded, most significant first.  The key of a sort by
\* the isoformat string is the datetime's place on the time line.
IsoKey(iso) ==
    LET n(i) == Num2(iso, i)
    IN  Seconds([year |-> 100 * n(1) + n(3), month |-> n(6), day |-> n(9),
                 hour |-> n(12), minute |-> n(15), second |-> n(18)])

(* The keyword lists of the reports.  A Cyrillic letter is named by its   *)
(* code point, as the invisible characters are.                           *)

\* the Cyrillic letters of the keyword lists, each named by its code point
Cyrillic ==
    {"U+0430", "U+0431", "U+0432", "U+0433", "U+0434", "U+0435", "U+0436", "U+0437",
     "U+0438", "U+0439", "U+043A", "U+043B", "U+043C", "U+043D", "U+043E", "U+043F",
     "U+0440", "U+0441", "U+0442", "U+0443", "U+0444", "U+0445", "U+0446", "U+0447",
     "U+0448", "U+0449", "U+044B", "U+044C", "U+044D", "U+044E", "U+044F", "U+0456",
     "U+04A3"}

\* line 748: the keywords of a topic of topic_keywords
topic_keywords_rabota ==
    <<<<"U+0440", "U+0430", "U+0431", "U+043E", "U+0442", "U+0430">>,
      <<"U+043F", "U+0440", "U+043E", "U+0435", "U+043A", "U+0442">>,
      <<"U+0437", "U+0430", "U+0434", "U+0430", "U+0447", "U+0430">>,
      <<"U+0434", "U+0435", "U+0434", "U+043B", "U+0430", "U+0439", "U+043D">>,
      <<"U+0432", "U+0441", "U+0442", "U+0440", "U+0435", "U+0447", "U+0430">>,
      <<"U+043E", "U+0444", "U+0438", "U+0441">>,
      <<"U+043A", "U+043E", "U+043B", "U+043B", "U+0435", "U+0433", "U+0430">>>>

\* line 749: the keywords of a topic of topic_keywords
topic_keywords_lichnoe ==
    <<<<"U+0434", "U+043E", "U+043C">>,
      <<"U+0441", "U+0435", "U+043C", "U+044C", "U+044F">>,
      <<"U+0434", "U+0440", "U+0443", "U+0437", "U+044C", "U+044F">>,
      <<"U+0432", "U+044B", "U+0445", "U+043E", "U+0434", "U+043D", "U+044B", "U+0435">>,
      <<"U+043E", "U+0442", "U+043F", "U+0443", "U+0441", "U+043A">>,
      <<"U+043F", "U+0440", "U+0430", "U+0437", "U+0434", "U+043D", "U+0438", "U+043A">>>>

\* line 750: the keywords of a topic of topic_keywords
topic_keywords_plany ==
    <<<<"U+0432", "U+0441", "U+0442", "U+0440", "U+0435", "U+0447", "U+0430">>,
      <<"U+0432", "U+0441", "U+0442", "U+0440", "U+0435", "U+0442", "U+0438", "U+043C", "U+0441", "U+044F">>,
      <<"U+043F", "U+043B", "U+0430", "U+043D", "U+044B">>,
      <<"U+043A", "U+043E", "U+0433", "U+0434", "U+0430">>,
      <<"U+0433", "U+0434", "U+0435">>,
      <<"U+0432", "U+0440", "U+0435", "U+043C", "U+044F">>>>

\* line 751: the keywords of a topic of topic_keywords
topic_keywords_voprosy ==
    <<<<"U+043A", "U+0430", "U+043A">>,
      <<"U+0447", "U+0442", "U+043E">>,
      <<"U+043F", "U+043E", "U+0447", "U+0435", "U+043C", "U+0443">>,
      <<"U+043A", "U+043E", "U+0433", "U+0434", "U+0430">>,
      <<"U+0433", "U+0434", "U+0435">>,
      <<"U+043A", "U+0442", "U+043E">>>>

\* line 752: the keywords of a topic of topic_keywords
topic_keywords_emocii ==
    <<<<"U+0441", "U+043F", "U+0430", "U+0441", "U+0438", "U+0431", "U+043E">>,
      <<"U+0438", "U+0437", "U+0432", "U+0438", "U+043D", "U+0438">>,
      <<"U+043B", "U+044E", "U+0431", "U+043B", "U+044E">>,
      <<"U+043D", "U+0440", "U+0430", "U+0432", "U+0438", "U+0442", "U+0441", "U+044F">>,
      <<"U+043D", "U+0435", " ", "U+043D", "U+0440", "U+0430", "U+0432", "U+0438", "U+0442", "U+0441", "U+044F">>,
      <<"U+0433", "U+0440", "U+0443", "U+0441", "U+0442", "U+043D", "U+043E">>,
      <<"U+0440", "U+0430", "U+0434", "U+043E", "U+0441", "U+0442", "U+043D", "U+043E">>>>

\* line 1007
positive_words ==
    <<<<"U+0441", "U+043F", "U+0430", "U+0441", "U+0438", "U+0431", "U+043E">>,
      <<"U+043E", "U+0442", "U+043B", "U+0438", "U+0447", "U+043D", "U+043E">>,
      <<"U+0445", "U+043E", "U+0440", "U+043E", "U+0448", "U+043E">>,
      <<"U+043A", "U+043B", "U+0430", "U+0441", "U+0441">>,
      <<"U+0441", "U+0443", "U+043F", "U+0435", "U+0440">>,
      <<"U+0440", "U+0430", "U+0434">>,
      <<"U+0440", "U+0430", "U+0434", "U+043E", "U+0441", "U+0442", "U+044C">>,
      <<"U+043B", "U+044E", "U+0431", "U+043B", "U+044E">>,
      <<"U+043D", "U+0440", "U+0430", "U+0432", "U+0438", "U+0442", "U+0441", "U+044F">>,
      <<"U+043A", "U+0440", "U+0443", "U+0442", "U+043E">>>>

\* line 1008
negative_words ==
    <<<<"U+043F", "U+043B", "U+043E", "U+0445", "U+043E">>,
      <<"U+0443", "U+0436", "U+0430", "U+0441", "U+043D", "U+043E">>,
      <<"U+043D", "U+0435", "U+043D", "U+0430", "U+0432", "U+0438", "U+0436", "U+0443">>,
      <<"U+0437", "U+043B", "U+043E", "U+0439">>,
      <<"U+0437", "U+043B", "U+044E", "U+0441", "U+044C">>,
      <<"U+0433", "U+0440", "U+0443", "U+0441", "U+0442", "U+043D", "U+043E">>,
      <<"U+043F", "U+0435", "U+0447", "U+0430", "U+043B", "U+044C">>,
      <<"U+043F", "U+0440", "U+043E", "U+0431", "U+043B", "U+0435", "U+043C", "U+0430">>,
      <<"U+043E", "U+0448", "U+0438", "U+0431", "U+043A", "U+0430">>,
      <<"U+043D", "U+0435", "U+043F", "U+0440", "U+0430", "U+0432", "U+0438", "U+043B", "U+044C", "U+043D", "U+043E">>>>

\* line 1009
anxiety_words ==
    <<<<"U+0431", "U+0435", "U+0441", "U+043F", "U+043E", "U+043A", "U+043E", "U+044E", "U+0441", "U+044C">>,
      <<"U+0432", "U+043E", "U+043B", "U+043D", "U+0443", "U+044E", "U+0441", "U+044C">>,
      <<"U+0442", "U+0440", "U+0435", "U+0432", "U+043E", "U+0433", "U+0430">>,
      <<"U+0441", "U+0442", "U+0440", "U+0430", "U+0445">>,
      <<"U+0431", "U+043E", "U+044E", "U+0441", "U+044C">>,
      <<"U+043F", "U+0435", "U+0440", "U+0435", "U+0436", "U+0438", "U+0432", "U+0430", "U+044E">>,
      <<"U+043D", "U+0435", "U+0440", "U+0432", "U+043D", "U+0438", "U+0447", "U+0430", "U+044E">>>>

\* line 1033
work_words ==
    <<<<"U+0440", "U+0430", "U+0431", "U+043E", "U+0442", "U+0430">>,
      <<"U+043F", "U+0440", "U+043E", "U+0435", "U+043A", "U+0442">>,
      <<"U+0437", "U+0430", "U+0434", "U+0430", "U+0447", "U+0430">>>>

\* line 1038
plan_words ==
    <<<<"U+0432", "U+0441", "U+0442", "U+0440", "U+0435", "U+0447", "U+0430">>,
      <<"U+043F", "U+043B", "U+0430", "U+043D", "U+044B">>,
      <<"U+0432", "U+0440", "U+0435", "U+043C", "U+044F">>>>

\* line 1079
parasite_words_list ==
    <<<<"U+0442", "U+0438", "U+043F", "U+0430">>,
      <<"U+043A", "U+0430", "U+043A", " ", "U+0431", "U+044B">>,
      <<"U+0432", " ", "U+043E", "U+0431", "U+0449", "U+0435", "U+043C">>,
      <<"U+043A", "U+043E", "U+0440", "U+043E", "U+0447", "U+0435">>,
      <<"U+043D", "U+0443">>,
      <<"U+044D", "U+0442", "U+043E">>,
      <<"U+0432", "U+043E", "U+0442">>,
      <<"U+0442", "U+0430", "U+043A">>>>

\* line 1087
formal_words ==
    <<<<"U+0432", "U+044B">>,
      <<"U+0432", "U+0430", "U+0441">>,
      <<"U+0432", "U+0430", "U+043C">>,
      <<"U+0432", "U+0430", "U+0448">>>>

\* line 1089
informal_words ==
    <<<<"U+0442", "U+044B">>,
      <<"U+0442", "U+0435", "U+0431", "U+044F">>,
      <<"U+0442", "U+0435", "U+0431", "U+0435">>,
      <<"U+0442", "U+0432", "U+043E", "U+0439">>>>

\* line 1137: marker_phrases['resolution']
marker_phrases_resolution ==
    <<<<"U+043B", "U+0430", "U+0434", "U+043D", "U+043E">>,
      <<"U+043E", "U+043A">>,
      <<"U+043E", "U+043A", "U+0435", "U+0439">>,
      <<"U+043F", "U+043E", "U+043D", "U+044F", "U+0442", "U+043D", "U+043E">>,
      <<"U+0445", "U+043E", "U+0440", "U+043E", "U+0448", "U+043E">>,
      <<"U+0441", "U+043E", "U+0433", "U+043B", "U+0430", "U+0441", "U+0435", "U+043D">>,
      <<"U+043F", "U+0440", "U+0438", "U+043D", "U+044F", "U+0442", "U+043E">>>>

\* line 1138: marker_phrases['tension']
marker_phrases_tension ==
    <<<<"U+043A", "U+0430", "U+043A", " ", "U+0445", "U+043E", "U+0447", "U+0435", "U+0448", "U+044C">>,
      <<"U+0434", "U+0435", "U+043B", "U+0430", "U+0439", " ", "U+0447", "U+0442", "U+043E", " ", "U+0445", "U+043E", "U+0447", "U+0435", "U+0448", "U+044C">>,
      <<"U+043D", "U+0435", " ", "U+0432", "U+0430", "U+0436", "U+043D", "U+043E">>,
      <<"U+0431", "U+0435", "U+0437", " ", "U+0440", "U+0430", "U+0437", "U+043D", "U+0438", "U+0446", "U+044B">>,
      <<"U+043D", "U+0435", "U+0432", "U+0430", "U+0436", "U+043D", "U+043E">>>>

\* line 1139: marker_phrases['apology']
marker_phrases_apology ==
    <<<<"U+0438", "U+0437", "U+0432", "U+0438", "U+043D", "U+0438">>,
      <<"U+0438", "U+0437", "U+0432", "U+0438", "U+043D", "U+0438", "U+0442", "U+0435">>,
      <<"U+043F", "U+0440", "U+043E", "U+0441", "U+0442", "U+0438">>,
      <<"U+043F", "U+0440", "U+043E", "U+0441", "U+0442", "U+0438", "U+0442", "U+0435">>,
      <<"U+0441", "U+043E", "U+0440", "U+0440", "U+0438">>>>

\* line 1140: marker_phrases['compromise']
marker_phrases_compromise ==
    <<<<"U+043C", "U+043E", "U+0436", "U+0435", "U+0442">>,
      <<"U+0432", "U+043E", "U+0437", "U+043C", "U+043E", "U+0436", "U+043D", "U+043E">>,
      <<"U+043F", "U+043E", "U+043F", "U+0440", "U+043E", "U+0431", "U+0443", "U+0435", "U+043C">>,
      <<"U+0434", "U+0430", "U+0432", "U+0430", "U+0439", " ", "U+043F", "U+043E", "U+043F", "U+0440", "U+043E", "U+0431", "U+0443", "U+0435", "U+043C">>,
      <<"U+0434", "U+0430", "U+0432", "U+0430", "U+0439", "U+0442", "U+0435">>>>

\* lines 199-208
stop_words ==
    {<<"U+0438">>, <<"U+0432">>, <<"U+043D", "U+0430">>, <<"U+0441">>,
     <<"U+043A">>, <<"U+0430">>, <<"U+043E">>, <<"U+0443">>,
     <<"U+044F">>, <<"U+0442", "U+044B">>, <<"U+043C", "U+044B">>, <<"U+0432", "U+044B">>,
     <<"U+043E", "U+043D">>, <<"U+043E", "U+043D", "U+0430">>, <<"U+043E", "U+043D", "U+0438">>, <<"U+044D", "U+0442", "U+043E">>,
     <<"U+043A", "U+0430", "U+043A">>, <<"U+0442", "U+0430", "U+043A">>, <<"U+0447", "U+0442", "U+043E">>, <<"U+0434", "U+043B", "U+044F">>,
     <<"U+043E", "U+0442">>, <<"U+0434", "U+043E">>, <<"U+0437", "U+0430">>, <<"U+0438", "U+0437">>,
     <<"U+0436", "U+0435">>, <<"U+0431", "U+044B">>, <<"U+043B", "U+0438">>, <<"U+0442", "U+043E">>,
     <<"U+043D", "U+043E">>, <<"U+0434", "U+0430">>, <<"U+043D", "U+0435", "U+0442">>, <<"U+043D", "U+0435">>,
     <<"U+0434", "U+0430">>, <<"U+0436">>, <<"U+0436", "U+0435">>, <<"U+043D", "U+0443">>,
     <<"U+0432", "U+043E", "U+0442">>, <<"U+0442", "U+0430", "U+043C">>, <<"U+0442", "U+0443", "U+0442">>, <<"t", "h", "e">>,
     <<"a">>, <<"a", "n">>, <<"a", "n", "d">>, <<"o", "r">>,
     <<"b", "u", "t">>, <<"i", "n">>, <<"o", "n">>, <<"a", "t">>,
     <<"t", "o">>, <<"f", "o", "r">>, <<"o", "f">>, <<"w", "i", "t", "h">>,
     <<"i", "s">>, <<"a", "r", "e">>, <<"w", "a", "s">>, <<"w", "e", "r", "e">>,
     <<"b", "e">>, <<"b", "e", "e", "n">>, <<"h", "a", "v", "e">>, <<"h", "a", "s">>,
     <<"h", "a", "d">>, <<"d", "o">>, <<"d", "o", "e", "s">>, <<"d", "i", "d">>,
     <<"U+043C", "U+0435", "U+043D">>, <<"U+0441", "U+0435", "U+043D">>, <<"U+043E", "U+043B">>, <<"U+0431", "U+0456", "U+0437">>,
     <<"U+0441", "U+0456", "U+0437">>, <<"U+043E", "U+043B", "U+0430", "U+0440">>, <<"U+0431", "U+0435", "U+043D">>, <<"U+043C", "U+0435", "U+043D", "U+0435", "U+043D">>,
     <<"U+043C", "U+0435", "U+043D", "U+0456", "U+04A3">>, <<"U+0441", "U+0435", "U+043D", "U+0456", "U+04A3">>, <<"U+043E", "U+043D", "U+044B", "U+04A3">>}


\* str.lower() on the characters of the model
LowerChar(c) ==
    CASE c = "A" -> "a" [] c = "B" -> "b" [] OTHER -> c

\* str.lower() left out: the text as it is
Lower_Identity(s) == s

Lower(s) == [i \in 1 .. Len(s) |-> LowerChar(s[i])]

\* sub in s
In(sub, s) ==
    \E i \in 1 .. (Len(s) - Len(sub) + 1) : SubSeq(s, i, i + Len(sub) - 1) = sub

\* s.count(sub) from position i on: occurrences that do not overlap, from the
\* left; the empty string occurs len(s) + 1 times
RECURSIVE CountFrom(_, _, _)
CountFrom(s, sub, i) ==
    IF sub = <<>> THEN Len(s) + 2 - i
    ELSE IF i + Len(sub) - 1 > Len(s) THEN 0
    ELSE IF SubSeq(s, i, i + Len(sub) - 1) = sub
         THEN 1 + CountFrom(s, sub, i + Len(sub))
         ELSE CountFrom(s, sub, i + 1)

Count(s, sub) == CountFrom(s, sub, 1)

\* the words of s: the maximal runs of characters in wordChars, in order
RECURSIVE Runs_(_, _, _)
Runs_(s, i, inSet) ==
    IF i > Len(s) THEN <<>>
    ELSE LET n == SpanLen(s, i, inSet)
         IN  IF n = 0 THEN Runs_(s, i + 1, inSet)
             ELSE <<SubSeq(s, i, i + n - 1)>> \o Runs_(s, i + n, inSet)

\* the characters of analyzed texts: Latin letters, and the Cyrillic letters
\* of the keyword lists
Letters == {"a", "b", "A", "B"}
\* characters that are keys of emoji.EMOJI_DATA
EMOJI_DATA == {"U+1F600", "U+2764"}
TextChars == Letters \cup Cyrillic \cup Digit \cup Whitespace \cup EMOJI_DATA \cup {"?", "!", ".", ":", "-"}

\* text.split(): the runs of characters that are no whitespace
Split(s) == Runs_(s, 1, TextChars \ Whitespace)

\* re.findall(r'\b\w+\b', text): the runs of letters and digits
WordTokens(s) == Runs_(s, 1, Letters \cup Cyrillic \cup Digit)

\* the authors of msgs in the order of their first message, and as a set
AuthorList(msgs) == FirstSeen([i \in 1 .. Len(msgs) |-> msgs[i].author])
AuthorsOf(msgs) == {msgs[i].author : i \in 1 .. Len(msgs)}

\* the messages of msgs by author a
ByAuthor(msgs, a) == LET by(m) == m.author = a IN SelectSeq(msgs, by)

\* the lengths of the texts of msgs
TextLengths(msgs) == [i \in 1 .. Len(msgs) |-> Len(msgs[i].text)]

----------------------------------------------------------------------------
(* ChatAnalyzer: the reports                                                *)

EmptyDict == <<>>

\* min(dates) and max(dates) over date objects
MinDate(S) ==
    IF S = {} THEN ValueError
    ELSE Value(CHOOSE d \in S : \A e \in S : DateOrd(d) <= DateOrd(e))

MaxDate(S) ==
    IF S = {} THEN ValueError
    ELSE Value(CHOOSE d \in S : \A e \in S : DateOrd(d) >= DateOrd(e))

\* sorted(lengths) for a list of integers
SortedInts(q) == SortedValues([i \in 1 .. Len(q) |-> <<q[i], q[i]>>])

\* lines 110-152
get_basic_stats(msgs) ==
    LET total_messages == Len(msgs)
        dates == {msgs[i].date : i \in 1 .. Len(msgs)}
        first_date == MinDate(dates)
        last_date == MaxDate(dates)
        days_active == DateOrd(last_date.value) - DateOrd(first_date.value) + 1
        author_stats == [a \in AuthorsOf(msgs) |-> Len(ByAuthor(msgs, a))]
        author_chars == [a \in AuthorsOf(msgs) |-> SumSeq(TextLengths(ByAuthor(msgs, a)))]
        total_chars == SumSeq(TextLengths(msgs))
        total_words == SumSeq([i \in 1 .. Len(msgs) |-> Len(Split(msgs[i].text))])
        avg_message_length ==
            IF total_messages > 0 THEN Rounded(total_chars, total_messages, 2) ELSE 0
        avg_words_per_message ==
            IF total_messages > 0 THEN Rounded(total_words, total_messages, 2) ELSE 0
        messages_per_day ==
            IF days_active > 0 THEN Rounded(total_messages, days_active, 2) ELSE 0
    IN  IF total_messages = 0 THEN Value(EmptyDict)
        ELSE Returns([total_messages |-> total_messages,
                      total_chars |-> total_chars,
                      total_words |-> total_words,
                      first_date |-> IsoDate(first_date.value),
                      last_date |-> IsoDate(last_date.value),
                      days_active |-> days_active,
                      avg_message_length |-> avg_message_length,
                      avg_words_per_message |-> avg_words_per_message,
                      messages_per_day |-> messages_per_day,
                      author_stats |-> author_stats,
                      author_chars |-> author_chars],
                     <<first_date, last_date>>)

\* [char for char in text if char in emoji.EMOJI_DATA]
EmojisIn(text) == LET isEmoji(c) == c \in EMOJI_DATA IN SelectSeq(text, isEmoji)

\* the emoji of all messages of msgs, in order
RECURSIVE AllEmojis(_)
AllEmojis(msgs) ==
    IF msgs = <<>> THEN <<>> ELSE EmojisIn(msgs[1].text) \o AllEmojis(Tail(msgs))

\* line 189 without its guard
emoji_usage_percentage_Unguarded(emoji_messages, msgs) ==
    Percent(Len(emoji_messages), Len(msgs), 2)

\* line 189: round(len(emoji_messages) / len(self.messages) * 100, 2) if self.messages else 0
emoji_usage_percentage(emoji_messages, msgs) ==
    IF msgs # <<>> THEN Percent(Len(emoji_messages), Len(msgs), 2) ELSE Value(0)

\* lines 154-192
get_emoji_stats(msgs) ==
    LET hasEmoji(m) == EmojisIn(m.text) # <<>>
        emoji_messages == SelectSeq(msgs, hasEmoji)
        all == AllEmojis(msgs)
        seen == FirstSeen(all)
        emoji_counter == [e \in Range(all) |-> Count(all, <<e>>)]
        top_emojis ==
            Take(SortedValuesDesc([i \in 1 .. Len(seen) |->
                     <<emoji_counter[seen[i]], <<seen[i], emoji_counter[seen[i]]>>>>]), 50)
        author_emoji_stats ==
            [a \in AuthorsOf(emoji_messages) |->
                [count |-> Len(AllEmojis(ByAuthor(emoji_messages, a))),
                 unique |-> Cardinality(Range(AllEmojis(ByAuthor(emoji_messages, a))))]]
        pct == emoji_usage_percentage(emoji_messages, msgs)
    IN  Returns([total_emojis |-> Len(all),
                 unique_emojis |-> Cardinality(Range(all)),
                 messages_with_emoji |-> Len(emoji_messages),
                 emoji_usage_percentage |-> pct.value,
                 top_emojis |-> top_emojis,
                 author_emoji_stats |-> author_emoji_stats],
                <<pct>>)

\* the word tokens of all messages, lower-cased, in order
RECURSIVE AllWords(_)
AllWords(msgs) ==
    IF msgs = <<>> THEN <<>>
    ELSE WordTokens(Lower(msgs[1].text)) \o AllWords(Tail(msgs))

\* lines 194-224
get_word_stats(msgs, min_word_length, top_n) ==
    LET keep(w) == Len(w) >= min_word_length /\ w \notin stop_words
        words == SelectSeq(AllWords(msgs), keep)
        seen == FirstSeen(words)
        counter(w) == Len(SelectSeq(words, LAMBDA x : x = w))
        top_words ==
            Take(SortedValuesDesc([i \in 1 .. Len(seen) |->
                     <<counter(seen[i]), <<seen[i], counter(seen[i])>>>>]), top_n)
    IN  Value([total_unique_words |-> Len(seen), top_words |-> top_words])

\* line 233 and others: the weekday names ('Понедельник' .. 'Воскресенье'),
\* written in Latin letters
weekday_names ==
    <<"Ponedelnik", "Vtornik", "Sreda", "Chetverg", "Pyatnica", "Subbota", "Voskresenye">>

\* lines 226-263
get_activity_stats(msgs) ==
    LET hourly(h) == Len(SelectSeq(msgs, LAMBDA m : m.hour = h))
        weekday(w) == Len(SelectSeq(msgs, LAMBDA m : m.weekday = w))
        months == FirstSeen([i \in 1 .. Len(msgs) |-> YearMonth(msgs[i].datetime)])
        monthly(k) == Len(SelectSeq(msgs, LAMBDA m : YearMonth(m.datetime) = k))
        monthKey(k) == 12 * (100 * Num2(k, 1) + Num2(k, 3)) + Num2(k, 6)
        authorHour(a, h) == Len(SelectSeq(msgs, LAMBDA m : m.author = a /\ m.hour = h))
    IN  Value(
        [hourly |-> [i \in 1 .. 24 |-> <<i - 1, hourly(i - 1)>>],
         weekday |-> [i \in 1 .. 7 |-> <<weekday_names[i], weekday(i - 1)>>],
         monthly |-> SortedValues([i \in 1 .. Len(months) |->
                         <<monthKey(months[i]), <<months[i], monthly(months[i])>>>>]),
         author_hourly |->
             [a \in AuthorsOf(msgs) |->
                 LET hours == SelectSeq([i \in 1 .. 24 |-> i - 1],
                                        LAMBDA h : authorHour(a, h) > 0)
                 IN  [i \in 1 .. Len(hours) |-> <<hours[i], authorHour(a, hours[i])>>]]])

\* lines 265-288
get_message_length_stats(msgs) ==
    LET lengths == TextLengths(msgs)
        authors == AuthorList(msgs)
        avg_of(a) == Round(SumSeq(TextLengths(ByAuthor(msgs, a))), Len(ByAuthor(msgs, a)), 2)
        min_length == PyMin(Range(lengths))
        max_length == PyMax(Range(lengths))
        avg_length == Round(SumSeq(lengths), Len(lengths), 2)
    IN  IF lengths = <<>> THEN Value(EmptyDict)
        ELSE Returns([min_length |-> min_length.value,
                      max_length |-> max_length.value,
                      avg_length |-> avg_length.value,
                      median_length |-> SortedInts(lengths)[(Len(lengths) \div 2) + 1],
                      author_avg_lengths |-> [a \in AuthorsOf(msgs) |-> avg_of(a).value]],
                     <<min_length, max_length, avg_length>>
                         \o [i \in 1 .. Len(authors) |-> avg_of(authors[i])])

\* (b - a).total_seconds() for datetimes a and b
SecondsBetween(a, b) == Seconds(b) - Seconds(a)

\* lines 468-485: the first message of msgs by author a with the earliest
\* (latest = TRUE: the latest) datetime
FirstOrLast(msgs, a, latest) ==
    LET mine == ByAuthor(msgs, a)
        better(x, y) == IF latest THEN Seconds(x.datetime) > Seconds(y.datetime)
                        ELSE Seconds(x.datetime) < Seconds(y.datetime)
        i == CHOOSE i \in 1 .. Len(mine) :
                /\ \A j \in 1 .. Len(mine) : ~better(mine[j], mine[i])
                /\ \A j \in 1 .. (i - 1) : better(mine[i], mine[j])
    IN  [datetime |-> IsoDateTime(mine[i].datetime),
         date |-> IsoDate(mine[i].datetime),
         time |-> IsoTime(mine[i].datetime),
         text |-> Take(mine[i].text, 100)]

\* the messages as they stand in the file
ByDatetime_FileOrder(msgs) == msgs

\* sorted(self.messages, key=lambda x: x['datetime'])
ByDatetime(msgs) ==
    SortedValues([i \in 1 .. Len(msgs) |-> <<Seconds(msgs[i].datetime), msgs[i]>>])

\* lines 508-516: the response times, in seconds (the code holds minutes)
ResponseTimes(msgs) ==
    LET q == ByDatetime(msgs)
        delta(i) == SecondsBetween(q[i - 1].datetime, q[i].datetime)
        counted(i) == /\ q[i - 1].author # q[i].author
                      /\ 0 < delta(i) /\ delta(i) < 24 * 60 * 60
        idx == SelectSeq([i \in 1 .. (Len(q) - 1) |-> i + 1], counted)
    IN  [k \in 1 .. Len(idx) |-> delta(idx[k])]

\* lines 423-528
get_interesting_stats(msgs) ==
    LET entry(m, text) ==
            [text |-> text, length |-> Len(m.text), author |-> m.author,
             date |-> IsoDate(m.date)]
        longest == Take(SortedValuesDesc([i \in 1 .. Len(msgs) |->
                            <<Len(msgs[i].text), msgs[i]>>]), 10)
        non_empty == SelectSeq(msgs, LAMBDA m : Strip(m.text) # <<>>)
        shortest == Take(SortedValues([i \in 1 .. Len(non_empty) |->
                             <<Len(non_empty[i].text), non_empty[i]>>]), 10)
        days == FirstSeen([i \in 1 .. Len(msgs) |-> msgs[i].date])
        onDay(d) == Len(SelectSeq(msgs, LAMBDA m : m.date = d))
        top_days == Take(SortedValuesDesc([i \in 1 .. Len(days) |->
                             <<onDay(days[i]),
                               [date |-> IsoDate(days[i]), messages |-> onDay(days[i])]>>]), 10)
        response_times == ResponseTimes(msgs)
        avg_response_time ==
            IF response_times # <<>>
            THEN Rounded(SumSeq(response_times), 60 * Len(response_times), 2)
            ELSE 0
    IN  IF msgs = <<>> THEN Value(EmptyDict)
        ELSE Value(
            [longest_messages |->
                 [i \in 1 .. Len(longest) |->
                     entry(longest[i],
                           Take(longest[i].text, 200)
                               \o (IF Len(longest[i].text) > 200 THEN <<".", ".", ".">>
                                   ELSE <<>>))],
             shortest_messages |->
                 [i \in 1 .. Len(shortest) |-> entry(shortest[i], shortest[i].text)],
             top_active_days |-> top_days,
             author_first_message |->
                 [a \in AuthorsOf(msgs) |-> FirstOrLast(msgs, a, FALSE)],
             author_last_message |->
                 [a \in AuthorsOf(msgs) |-> FirstOrLast(msgs, a, TRUE)],
             avg_response_time_minutes |-> avg_response_time,
             total_responses_analyzed |-> Len(response_times)])

\* lines 629-652: the events the scan for one author of the outer loop
\* records, from message i on.  The test of line 636 compares the author of
\* the previous message with the author of the outer loop; an author or time
\* that is empty counts as absent.
RECURSIVE GhostScan(_, _, _)
GhostScan(msgs, author, i) ==
    IF i > Len(msgs) THEN <<>>
    ELSE LET prev == msgs[i - 1]
             time_diff == SecondsBetween(prev.datetime, msgs[i].datetime)
             event == [ghosted_by |-> prev.author,
                       ghosted_from |-> IsoDateTime(prev.datetime),
                       responded_by |-> author,
                       responded_at |-> IsoDateTime(msgs[i].datetime),
                       hours_silent |-> Rounded(time_diff, 3600, 1),
                       days_silent |-> Rounded(time_diff, 3600 * 24, 1)]
         IN  (IF prev.author # <<>> /\ prev.author # author /\ time_diff > 24 * 3600
              THEN <<event>> ELSE <<>>)
                 \o GhostScan(msgs, author, i + 1)

\* the events of all authors of the outer loop, one author after the other
RECURSIVE GhostEvents(_, _)
GhostEvents(msgs, authors) ==
    IF authors = <<>> THEN <<>>
    ELSE GhostScan(msgs, authors[1], 2) \o GhostEvents(msgs, Tail(authors))

\* the orders in which a loop can run over the elements of a set S
Orders(S) == {q \in [1 .. Cardinality(S) -> S] : Range(q) = S}

\* lines 620-676.  The outer loop runs over a set of authors (line 626); the
\* order of a set of strings is not fixed, authors is the order it took.
get_ghosting_stats(msgs, authors) ==
    LET found == GhostEvents(msgs, authors)
        ghosting_events ==
            SortedValuesDesc([i \in 1 .. Len(found) |-> <<found[i].hours_silent, found[i]>>])
        of(a) == SelectSeq(ghosting_events, LAMBDA e : e.ghosted_by = a)
        hours(a) == [i \in 1 .. Len(of(a)) |-> of(a)[i].hours_silent]
        ghosters == {ghosting_events[i].ghosted_by : i \in 1 .. Len(ghosting_events)}
        avg(a) == IF Len(of(a)) > 0 THEN Rounded(SumSeq(hours(a)), 10 * Len(of(a)), 1) ELSE 0
    IN  IF Len(msgs) < 2 THEN Value([ghosting_events |-> <<>>])
        ELSE Value(
            [total_ghosting_events |-> Len(ghosting_events),
             top_ghosting_events |-> Take(ghosting_events, 20),
             author_stats |->
                 [a \in ghosters |->
                     [ghosting_count |-> Len(of(a)),
                      avg_hours_silent |-> avg(a),
                      max_hours_silent |-> MaxOf(Range(hours(a)) \cup {0})]]])

\* the scan without the branch of lines 722-723: a tied cell is not added
MostActiveStep_NoTies(msgs, weekday, hour, st) ==
    LET count == Len(SelectSeq(msgs, LAMBDA m : m.weekday = weekday /\ m.hour = hour))
        period == [weekday |-> weekday_names[weekday + 1], hour |-> hour, count |-> count]
    IN  IF count > st.max_activity
        THEN [max_activity |-> count, most_active_periods |-> <<period>>]
        ELSE st

\* lines 713-723: the scan for the most active cells.  st holds
\* max_activity and most_active_periods; MostActiveStep is one pass of the
\* inner loop's body, MostActiveHours the inner loop up to an hour of a
\* weekday, MostActiveDays the outer loop up to a weekday.
MostActiveStep(msgs, weekday, hour, st) ==
    LET count == Len(SelectSeq(msgs, LAMBDA m : m.weekday = weekday /\ m.hour = hour))
        period == [weekday |-> weekday_names[weekday + 1], hour |-> hour, count |-> count]
    IN  IF count > st.max_activity
        THEN [max_activity |-> count, most_active_periods |-> <<period>>]
        ELSE IF count = st.max_activity /\ count > 0
        THEN [st EXCEPT !.most_active_periods = Append(@, period)]
        ELSE st

RECURSIVE MostActiveHours(_, _, _, _)
MostActiveHours(msgs, weekday, hour, st) ==
    IF hour < 0 THEN st
    ELSE MostActiveStep(msgs, weekday, hour, MostActiveHours(msgs, weekday, hour - 1, st))

\* (max_activity is never negative: the test has the state after the days
\* before evaluated first, which keeps the evaluation shallow)
RECURSIVE MostActiveDays(_, _)
MostActiveDays(msgs, weekday) ==
    IF weekday < 0 THEN [max_activity |-> 0, most_active_periods |-> <<>>]
    ELSE LET st == MostActiveDays(msgs, weekday - 1)
         IN  IF st.max_activity < 0 THEN st ELSE MostActiveHours(msgs, weekday, 23, st)

\* lines 678-730
get_activity_heatmap(msgs) ==
    LET count(w, h) == Len(SelectSeq(msgs, LAMBDA m : m.weekday = w /\ m.hour = h))
        dates == {IsoDate(msgs[i].date) : i \in 1 .. Len(msgs)}
        scan == MostActiveDays(msgs, 6)
    IN  Value(
        [heatmap |->
             [w \in 1 .. 7 |->
                 [weekday |-> w - 1,
                  weekday_name |-> weekday_names[w],
                  hours |-> [h \in 1 .. 24 |-> [hour |-> h - 1, count |-> count(w - 1, h - 1)]]]],
         date_activity |->
             [d \in dates |-> Len(SelectSeq(msgs, LAMBDA m : IsoDate(m.date) = d))],
         max_activity |-> scan.max_activity,
         most_active_periods |-> Take(scan.most_active_periods, 10)])

\* sorted(S) for a set of integers
RECURSIVE SortedSet(_)
SortedSet(S) == IF S = {} THEN <<>> ELSE <<MinOf(S)>> \o SortedSet(S \ {MinOf(S)})

\* lines 290-362.  matches.sort() orders by the isoformat string of the
\* datetime; date_stats is keyed by date objects and sorted by them.
search_word(msgs, word, case_sensitive) ==
    LET fold(text) == IF case_sensitive THEN text ELSE Lower(text)
        count(m) == Count(fold(m.text), fold(word))
        found == SelectSeq(msgs, LAMBDA m : In(fold(word), fold(m.text)))
        match(m) == [datetime |-> IsoDateTime(m.datetime),
                     date |-> IsoDate(m.date),
                     time |-> IsoTime(m.time),
                     hour |-> m.hour,
                     weekday |-> m.weekday,
                     author |-> m.author,
                     text |-> m.text,
                     count |-> count(m)]
        matches == SortedValues([i \in 1 .. Len(found) |->
                       <<IsoKey(match(found[i]).datetime), match(found[i])>>])
        sumOver(q) == SumSeq([i \in 1 .. Len(q) |-> count(q[i])])
        author_stats == [a \in AuthorsOf(found) |-> sumOver(ByAuthor(found, a))]
        hours == SortedSet({found[i].hour : i \in 1 .. Len(found)})
        weekdays == SortedSet({found[i].weekday : i \in 1 .. Len(found)})
        dates == SortedValues(
                     LET seen == FirstSeen([i \in 1 .. Len(found) |-> found[i].date])
                     IN  [i \in 1 .. Len(seen) |-> <<DateOrd(seen[i]), seen[i]>>])
    IN  Value(
        [word |-> word,
         total_occurrences |-> SumSeq([i \in 1 .. Len(matches) |-> matches[i].count]),
         unique_messages |-> Len(matches),
         author_stats |-> author_stats,
         author_percentages |->
             [a \in AuthorsOf(found) |->
                 IF Len(ByAuthor(msgs, a)) > 0
                 THEN Rounded(author_stats[a] * 100, Len(ByAuthor(msgs, a)), 2)
                 ELSE 0],
         hour_stats |->
             [i \in 1 .. Len(hours) |->
                 <<hours[i], sumOver(SelectSeq(found, LAMBDA m : m.hour = hours[i]))>>],
         weekday_stats |->
             [i \in 1 .. Len(weekdays) |->
                 <<weekday_names[weekdays[i] + 1],
                   sumOver(SelectSeq(found, LAMBDA m : m.weekday = weekdays[i]))>>],
         date_stats |->
             [i \in 1 .. Len(dates) |->
                 <<dates[i], sumOver(SelectSeq(found, LAMBDA m : m.date = dates[i]))>>],
         matches |-> matches,
         total_matches_count |-> Len(matches)])

\* any(word in text for word in words)
AnyIn(words, text) == \E i \in 1 .. Len(words) : In(words[i], text)

\* lines 747-753; the names of the topics are written in Latin letters
topic_keywords ==
    [rabota |-> topic_keywords_rabota,
     lichnoe |-> topic_keywords_lichnoe,
     plany |-> topic_keywords_plany,
     voprosy |-> topic_keywords_voprosy,
     emocii |-> topic_keywords_emocii]

\* lines 732-822; the names of the times of day are written in Latin letters
get_semantic_analysis(msgs) ==
    LET total == Len(msgs)
        n(test(_)) == Len(SelectSeq(msgs, test))
        short(m) == Len(Lower(m.text)) < 10
        medium(m) == ~short(m) /\ Len(Lower(m.text)) < 50
        long(m) == ~short(m) /\ ~medium(m)
        question(m) == In(<<"?">>, Lower(m.text))
        exclamation(m) == In(<<"!">>, Lower(m.text))
        topic_count(t) ==
            Len(SelectSeq(msgs, LAMBDA m : AnyIn(topic_keywords[t], Lower(m.text))))
        utro(m) == 6 <= m.hour /\ m.hour < 12
        den(m) == 12 <= m.hour /\ m.hour < 18
        vecher(m) == 18 <= m.hour /\ m.hour < 24
        noch(m) == ~utro(m) /\ ~den(m) /\ ~vecher(m)
        pct(k) == IF total > 0 THEN Rounded(k * 100, total, 1) ELSE 0
    IN  IF msgs = <<>> THEN Value(EmptyDict)
        ELSE Value(
            [message_length_distribution |->
                 [short |-> n(short), medium |-> n(medium), long |-> n(long),
                  short_percentage |-> pct(n(short)),
                  medium_percentage |-> pct(n(medium)),
                  long_percentage |-> pct(n(long))],
             communication_style |->
                 [question_messages |-> n(question),
                  exclamation_messages |-> n(exclamation),
                  question_percentage |-> pct(n(question)),
                  exclamation_percentage |-> pct(n(exclamation))],
             topics |->
                 [t \in {t \in DOMAIN topic_keywords : topic_count(t) > 0} |-> topic_count(t)],
             time_periods |->
                 [utro |-> n(utro), den |-> n(den), vecher |-> n(vecher), noch |-> n(noch)],
             time_periods_percentage |->
                 [utro |-> pct(n(utro)), den |-> pct(n(den)),
                  vecher |-> pct(n(vecher)), noch |-> pct(n(noch))]])

\* line 829: five minutes, in seconds
series_threshold == 300

\* the scan that records a series only when it has more than three messages
RECURSIVE SeriesScan_Over3(_, _, _, _)
SeriesScan_Over3(msgs, i, current_author, n) ==
    LET closed == IF n > 3 THEN <<<<current_author, n>>>> ELSE <<>>
    IN  IF i > Len(msgs) THEN closed
        ELSE IF /\ msgs[i].author = current_author
                /\ SecondsBetween(msgs[i - 1].datetime, msgs[i].datetime) < series_threshold
        THEN SeriesScan_Over3(msgs, i + 1, current_author, n + 1)
        ELSE closed \o SeriesScan_Over3(msgs, i + 1, msgs[i].author, 1)

\* lines 836-866: the series of three messages and more, each as <<author,
\* length>>, that the scan from message i on closes; the series that is open
\* is by current_author and has n messages
RECURSIVE SeriesScan(_, _, _, _)
SeriesScan(msgs, i, current_author, n) ==
    LET closed == IF n >= 3 THEN <<<<current_author, n>>>> ELSE <<>>
    IN  IF i > Len(msgs) THEN closed
        ELSE IF /\ msgs[i].author = current_author
                /\ SecondsBetween(msgs[i - 1].datetime, msgs[i].datetime) < series_threshold
        THEN SeriesScan(msgs, i + 1, current_author, n + 1)
        ELSE closed \o SeriesScan(msgs, i + 1, msgs[i].author, 1)

\* lines 824-887
get_message_series_stats(msgs) ==
    LET series == SeriesScan(msgs, 2, msgs[1].author, 1)
        of(a) == LET mine == SelectSeq(series, LAMBDA x : x[1] = a)
                 IN  [i \in 1 .. Len(mine) |-> mine[i][2]]
        between(a, lo, hi) == Len(SelectSeq(of(a), LAMBDA x : lo <= x /\ x <= hi))
    IN  IF Len(msgs) < 2 THEN Value(EmptyDict)
        ELSE Value(
            [author_series |->
                 [a \in {series[i][1] : i \in 1 .. Len(series)} |->
                     [total_series |-> Len(of(a)),
                      total_messages_in_series |-> SumSeq(of(a)),
                      avg_series_length |->
                          IF of(a) # <<>> THEN Rounded(SumSeq(of(a)), Len(of(a)), 1) ELSE 0,
                      max_series_length |->
                          IF of(a) # <<>> THEN MaxOf(Range(of(a))) ELSE 0,
                      series_distribution |->
                          [from3to5 |-> between(a, 3, 5),
                           from6to10 |-> between(a, 6, 10),
                           from11to20 |-> between(a, 11, 20),
                           over20 |-> Len(SelectSeq(of(a), LAMBDA x : x > 20))]]]])

\* lines 903-932: what the loop knows at message i >= 2 of msgs:
\* last_other_authors holds the authors of the messages before the previous
\* one (an empty author is not added, line 926)
LastOtherAuthors(msgs, i) == {msgs[j].author : j \in 1 .. (i - 2)} \ {<<>>}

\* line 911: the message is counted as a response
IsResponse(msgs, i) ==
    /\ i >= 2
    /\ msgs[i].author # msgs[i - 1].author
    /\ msgs[i].author \in LastOtherAuthors(msgs, i)

\* a start counted only behind a message of another author
ConversationStarts_AfterOther(msgs, a) ==
    Cardinality({i \in 2 .. Len(msgs) :
        /\ msgs[i].author = a /\ msgs[i].author # msgs[i - 1].author
        /\ SecondsBetween(msgs[i - 1].datetime, msgs[i].datetime) > 6 * 3600})

\* lines 921-922: conversation_starters[a], the messages of a that come more
\* than 6 hours after the message before them
ConversationStarts(msgs, a) ==
    Cardinality({i \in 2 .. Len(msgs) :
        /\ msgs[i].author = a
        /\ SecondsBetween(msgs[i - 1].datetime, msgs[i].datetime) > 6 * 3600})

\* lines 889-950; the times are kept in seconds
get_reaction_speed_stats(msgs) ==
    LET time_diff(i) == SecondsBetween(msgs[i - 1].datetime, msgs[i].datetime)
        responses(a) ==
            LET idx == SelectSeq([i \in 1 .. Len(msgs) |-> i],
                                 LAMBDA i : IsResponse(msgs, i) /\ msgs[i].author = a)
            IN  [k \in 1 .. Len(idx) |-> time_diff(idx[k])]
        responders == {a \in AuthorsOf(msgs) : responses(a) # <<>>}
        starts(a) == ConversationStarts(msgs, a)
        in(a, lo, hi) == Len(SelectSeq(responses(a), LAMBDA t : lo <= t /\ t < hi))
    IN  IF Len(msgs) < 2 THEN Value(EmptyDict)
        ELSE Value(
            [avg_response_times |->
                 [a \in responders |->
                     [avg_minutes |->
                          Rounded(SumSeq(responses(a)), 60 * Len(responses(a)), 1),
                      median_minutes |->
                          Rounded(SortedInts(responses(a))[(Len(responses(a)) \div 2) + 1],
                                  60, 1),
                      total_responses |-> Len(responses(a))]],
             response_distribution |->
                 [a \in responders |->
                     [under_5min |-> Len(SelectSeq(responses(a), LAMBDA t : t < 5 * 60)),
                      under_1hour |-> in(a, 5 * 60, 3600),
                      under_1day |-> in(a, 3600, 24 * 3600),
                      over_1day |-> Len(SelectSeq(responses(a), LAMBDA t : t >= 24 * 3600))]],
             conversation_starters |->
                 [a \in {a \in AuthorsOf(msgs) : starts(a) > 0} |-> starts(a)]])

\* lines 952-999
get_participant_balance(msgs) ==
    LET total_messages == Len(msgs)
        words(q) == SumSeq([i \in 1 .. Len(q) |-> Len(Split(q[i].text))])
        total_words == words(msgs)
        total_chars == SumSeq(TextLengths(msgs))
        questions(a) == Len(SelectSeq(ByAuthor(msgs, a), LAMBDA m : In(<<"?">>, m.text)))
    IN  IF msgs = <<>> THEN Value(EmptyDict)
        ELSE Value(
            [participants |->
                 [a \in AuthorsOf(msgs) |->
                     [message_percentage |->
                          IF total_messages > 0
                          THEN Rounded(Len(ByAuthor(msgs, a)) * 100, total_messages, 1)
                          ELSE 0,
                      word_percentage |->
                          IF total_words > 0
                          THEN Rounded(words(ByAuthor(msgs, a)) * 100, total_words, 1)
                          ELSE 0,
                      character_percentage |->
                          IF total_chars > 0
                          THEN Rounded(SumSeq(TextLengths(ByAuthor(msgs, a))) * 100,
                                       total_chars, 1)
                          ELSE 0,
                      questions_count |-> questions(a),
                      statements_count |-> Len(ByAuthor(msgs, a)) - questions(a),
                      question_ratio |->
                          IF Len(ByAuthor(msgs, a)) > 0
                          THEN Rounded(questions(a) * 100, Len(ByAuthor(msgs, a)), 1)
                          ELSE 0]]])

\* sum(1 for word in words if word in text)
HowManyIn(words, text) == Cardinality({i \in 1 .. Len(words) : In(words[i], text)})

\* lines 1001-1060; the two topics are written in Latin letters
get_emotional_analysis(msgs) ==
    LET text(m) == Lower(m.text)
        pos(m) == HowManyIn(positive_words, text(m)) > 0
        neg(m) == HowManyIn(negative_words, text(m)) > 0
        anx(m) == HowManyIn(anxiety_words, text(m)) > 0
        work(m) == AnyIn(work_words, text(m))
        plan(m) == AnyIn(plan_words, text(m))
        days == FirstSeen([i \in 1 .. Len(msgs) |-> IsoDate(msgs[i].date)])
        on(d) == SelectSeq(msgs, LAMBDA m : IsoDate(m.date) = d)
        n(q, test(_)) == Len(SelectSeq(q, test))
        daily(d) == [positive |-> n(on(d), pos), negative |-> n(on(d), neg),
                     anxiety |-> n(on(d), anx), total |-> Len(on(d))]
        tense == SelectSeq(days, LAMBDA d :
                     daily(d).total > 0 /\ 10 * daily(d).negative > 3 * daily(d).total)
        tense_days ==
            SortedValuesDesc([i \in 1 .. Len(tense) |->
                LET ratio == Rounded(daily(tense[i]).negative * 100, daily(tense[i]).total, 1)
                IN  <<ratio, [date |-> tense[i], negative_ratio |-> ratio,
                              total_messages |-> daily(tense[i]).total]>>])
        workKey == {t \in {"rabota"} : \E i \in 1 .. Len(msgs) :
                       work(msgs[i]) /\ (pos(msgs[i]) \/ neg(msgs[i]))}
        planKey == {t \in {"plany"} : \E i \in 1 .. Len(msgs) : plan(msgs[i]) /\ anx(msgs[i])}
    IN  IF msgs = <<>> THEN Value(EmptyDict)
        ELSE Value(
            [daily_emotions |-> [d \in Range(days) |-> daily(d)],
             topic_emotions |->
                 [t \in workKey \cup planKey |->
                     IF t = "rabota"
                     THEN [positive |-> n(msgs, LAMBDA m : work(m) /\ pos(m)),
                           negative |-> n(msgs, LAMBDA m : work(m) /\ neg(m)),
                           anxiety |-> 0]
                     ELSE [positive |-> 0,
                           negative |-> 0,
                           anxiety |-> n(msgs, LAMBDA m : plan(m) /\ anx(m))]],
             tense_days |-> Take(tense_days, 20)])

\* str.isupper(): there is a cased character, and no cased character is in
\* lower case
IsUpper(text) ==
    /\ \E i \in 1 .. Len(text) : text[i] \in Letters \cup Cyrillic
    /\ \A i \in 1 .. Len(text) : text[i] \in Letters \cup Cyrillic => LowerChar(text[i]) # text[i]

\* lines 1098-1100: the parasite words an author's messages hold, one entry
\* for each message and word, in the order of the loops
RECURSIVE ParasiteHits(_)
ParasiteHits(q) ==
    IF q = <<>> THEN <<>>
    ELSE SelectSeq(parasite_words_list, LAMBDA w : In(w, Lower(q[1].text)))
             \o ParasiteHits(Tail(q))

\* lines 1062-1129
get_communication_style(msgs) ==
    LET mine(a) == ByAuthor(msgs, a)
        n(q, test(_)) == Len(SelectSeq(q, test))
        sum(q, f(_)) == SumSeq([i \in 1 .. Len(q) |-> f(q[i])])
        formal(a) == n(mine(a), LAMBDA m : AnyIn(formal_words, Lower(m.text)))
        informal(a) == n(mine(a), LAMBDA m : AnyIn(informal_words, Lower(m.text)))
        words(a) == AllWords(mine(a))
        total_messages(a) ==
            IF formal(a) + informal(a) > 0 THEN formal(a) + informal(a) ELSE 1
        hits(a) == ParasiteHits(mine(a))
        usage(a, w) == Len(SelectSeq(hits(a), LAMBDA x : x = w))
        top(a) == LET seen == FirstSeen(hits(a))
                  IN  Take(SortedValuesDesc([i \in 1 .. Len(seen) |->
                               <<usage(a, seen[i]), seen[i]>>]), 5)
    IN  IF msgs = <<>> THEN Value(EmptyDict)
        ELSE Value(
            [author_styles |->
                 [a \in AuthorsOf(msgs) |->
                     [formality_ratio |->
                          IF total_messages(a) > 0
                          THEN Rounded(formal(a) * 100, total_messages(a), 1)
                          ELSE 0,
                      emojis_per_message |->
                          IF total_messages(a) > 0
                          THEN Rounded(sum(mine(a), LAMBDA m : Len(EmojisIn(m.text))),
                                       total_messages(a), 1)
                          ELSE 0,
                      caps_usage |-> n(mine(a), LAMBDA m : IsUpper(m.text) /\ Len(m.text) > 3),
                      ellipsis_usage |->
                          sum(mine(a), LAMBDA m : Count(m.text, <<".", ".", ".">>)),
                      exclamation_usage |-> sum(mine(a), LAMBDA m : Count(m.text, <<"!">>)),
                      lexical_diversity |->
                          IF Len(words(a)) > 0
                          THEN Rounded(Cardinality(Range(words(a))) * 100, Len(words(a)), 1)
                          ELSE 0,
                      top_parasite_words |-> [w \in Range(top(a)) |-> usage(a, w)]]]])

\* lines 1136-1141
marker_phrases ==
    [resolution |-> marker_phrases_resolution,
     tension |-> marker_phrases_tension,
     apology |-> marker_phrases_apology,
     compromise |-> marker_phrases_compromise]

\* lines 1131-1165
get_conflict_analysis(msgs) ==
    LET used(p) == Len(SelectSeq(msgs, LAMBDA m : In(p, Lower(m.text))))
        usedBy(a, c) ==
            SumSeq([i \in 1 .. Len(ByAuthor(msgs, a)) |->
                       HowManyIn(marker_phrases[c], Lower(ByAuthor(msgs, a)[i].text))])
        phrase_usage(c) == {p \in Range(marker_phrases[c]) : used(p) > 0}
    IN  IF msgs = <<>> THEN Value(EmptyDict)
        ELSE Value(
            [marker_phrases |->
                 [c \in {c \in DOMAIN marker_phrases : phrase_usage(c) # {}} |->
                     [p \in phrase_usage(c) |-> used(p)]],
             apology_stats |->
                 [a \in {a \in AuthorsOf(msgs) : usedBy(a, "apology") > 0} |->
                     usedBy(a, "apology")],
             compromise_stats |->
                 [a \in {a \in AuthorsOf(msgs) : usedBy(a, "compromise") > 0} |->
                     usedBy(a, "compromise")]])

\* the number of ISO weeks of a year: 53 when 1 January is a Thursday, or a
\* Wednesday in a leap year
IsoWeeksIn(year) ==
    LET jan1 == Weekday([year |-> year, month |-> 1, day |-> 1])
    IN  IF jan1 = 3 \/ (jan1 = 2 /\ IsLeap(year)) THEN 53 ELSE 52

\* strftime('%V'): the ISO 8601 week number of a date
IsoWeek(dt) ==
    LET yday == ToOrdinal(dt.year, dt.month, dt.day) - ToOrdinal(dt.year, 1, 1) + 1
        week == (yday - (Weekday(dt) + 1) + 10) \div 7
    IN  IF week < 1 THEN IsoWeeksIn(dt.year - 1)
        ELSE IF week > IsoWeeksIn(dt.year) THEN 1
        ELSE week

\* strftime('%Y-W%V'): the calendar year with the ISO week
YearWeek(dt) ==
    Fmt2(dt.year \div 100) \o Fmt2(dt.year) \o <<"-", "W">> \o Fmt2(IsoWeek(dt))

\* max(d.items(), key=lambda x: x[1]) and min(...) for a dict counted up
\* over keys, a list of keys: the first item that has the greatest (least)
\* count
PeakOf(keys, greatest) ==
    LET seen == FirstSeen(keys)
        count(k) == Len(SelectSeq(keys, LAMBDA x : x = k))
        better(a, b) == IF greatest THEN count(a) > count(b) ELSE count(a) < count(b)
        i == CHOOSE i \in 1 .. Len(seen) :
                /\ \A j \in 1 .. Len(seen) : ~better(seen[j], seen[i])
                /\ \A j \in 1 .. (i - 1) : better(seen[i], seen[j])
    IN  [period |-> seen[i], messages |-> count(seen[i])]

\* lines 1167-1206
get_seasonality_analysis(msgs) ==
    LET weeks == [i \in 1 .. Len(msgs) |-> YearWeek(msgs[i].datetime)]
        months == [i \in 1 .. Len(msgs) |-> YearMonth(msgs[i].datetime)]
        counted(keys) == [k \in Range(keys) |-> Len(SelectSeq(keys, LAMBDA x : x = k))]
    IN  IF msgs = <<>> THEN Value(EmptyDict)
        ELSE Value(
            [weekly_activity |-> counted(weeks),
             monthly_activity |-> counted(months),
             peaks |->
                 [max_week |-> PeakOf(weeks, TRUE),
                  min_week |-> PeakOf(weeks, FALSE),
                  max_month |-> PeakOf(months, TRUE),
                  min_month |-> PeakOf(months, FALSE)]])

\* lines 1208-1227: the 16 reports are called one after the other; the first
\* that raises ends the call with its exception.  authors is the order the
\* ghosting report's loop took.
get_full_analysis(msgs, authors) ==
    LET basic == get_basic_stats(msgs)
        emoji == get_emoji_stats(msgs)
        words == get_word_stats(msgs, 2, 50)
        activity == get_activity_stats(msgs)
        message_length == get_message_length_stats(msgs)
        interesting == get_interesting_stats(msgs)
        ghosting == get_ghosting_stats(msgs, authors)
        activity_heatmap == get_activity_heatmap(msgs)
        semantic == get_semantic_analysis(msgs)
        message_series == get_message_series_stats(msgs)
        reaction_speed == get_reaction_speed_stats(msgs)
        participant_balance == get_participant_balance(msgs)
        emotional == get_emotional_analysis(msgs)
        communication_style == get_communication_style(msgs)
        conflict == get_conflict_analysis(msgs)
        seasonality == get_seasonality_analysis(msgs)
    IN  IF Raised(basic) THEN basic
        ELSE IF Raised(emoji) THEN emoji
        ELSE IF Raised(words) THEN words
        ELSE IF Raised(activity) THEN activity
        ELSE IF Raised(message_length) THEN message_length
        ELSE IF Raised(interesting) THEN interesting
        ELSE IF Raised(ghosting) THEN ghosting
        ELSE IF Raised(activity_heatmap) THEN activity_heatmap
        ELSE IF Raised(semantic) THEN semantic
        ELSE IF Raised(message_series) THEN message_series
        ELSE IF Raised(reaction_speed) THEN reaction_speed
        ELSE IF Raised(participant_balance) THEN participant_balance
        ELSE IF Raised(emotional) THEN emotional
        ELSE IF Raised(communication_style) THEN communication_style
        ELSE IF Raised(conflict) THEN conflict
        ELSE IF Raised(seasonality) THEN seasonality
        ELSE Value(
            [basic |-> basic.value,
             emoji |-> emoji.value,
             words |-> words.value,
             activity |-> activity.value,
             message_length |-> message_length.value,
             interesting |-> interesting.value,
             ghosting |-> ghosting.value,
             activity_heatmap |-> activity_heatmap.value,
             semantic |-> semantic.value,
             message_series |-> message_series.value,
             reaction_speed |-> reaction_speed.value,
             participant_balance |-> participant_balance.value,
             emotional |-> emotional.value,
             communication_style |-> communication_style.value,
             conflict |-> conflict.value,
             seasonality |-> seasonality.value])

----------------------------------------------------------------------------
(* ChatAnalyzer: the queries.  A timestamp or a date comes in as a string;  *)
(* date.fromisoformat and datetime.fromisoformat are modelled on the forms  *)
(* every Python 3.7 and later reads alike: "YYYY-MM-DD", then one separator *)
(* character and "HH:MM" or "HH:MM:SS", then a fraction of three digits,    *)
(* then an offset "+HH:MM" or "-HH:MM".  Any other string is a ValueError.  *)
(* An optional argument is <<>> for None and <<v>> for the value v.  The    *)
(* Russian text of an error result is written in Latin letters.             *)

TypeError == [raised |-> "TypeError"]

\* s.replace(old, new) for a one-character old
RECURSIVE Replace(_, _, _)
Replace(s, old, new) ==
    IF s = <<>> THEN <<>>
    ELSE (IF Head(s) = old THEN new ELSE <<Head(s)>>) \o Replace(Tail(s), old, new)

\* date.fromisoformat(s): the date, or ValueError
DateFromIsoFormat(s) ==
    LET y == 100 * Num2(s, 1) + Num2(s, 3)
        m == Num2(s, 6)
        d == Num2(s, 9)
    IN  IF /\ Len(s) = 10
           /\ AllDigits(s, 1, 4) /\ s[5] = "-"
           /\ AllDigits(s, 6, 2) /\ s[8] = "-"
           /\ AllDigits(s, 9, 2)
           /\ y >= 1 /\ m >= 1 /\ m <= 12 /\ d >= 1 /\ d <= DaysInMonth(y, m)
        THEN Value([year |-> y, month |-> m, day |-> d])
        ELSE ValueError

\* the offset "+HH:MM" or "-HH:MM" that ends an isoformat string
IsOffset(s) ==
    /\ Len(s) = 6
    /\ s[1] \in {"+", "-"}
    /\ AllDigits(s, 2, 2) /\ s[4] = ":" /\ AllDigits(s, 5, 2)
    /\ Num2(s, 2) <= 23 /\ Num2(s, 5) <= 59

\* the time of an isoformat string, "HH:MM", "HH:MM:SS" or "HH:MM:SS.fff":
\* hour, minute, second and millisecond, or ValueError
TimeFromIsoFormat(s) ==
    LET hm == /\ Len(s) >= 5
              /\ AllDigits(s, 1, 2) /\ s[3] = ":" /\ AllDigits(s, 4, 2)
              /\ Num2(s, 1) <= 23 /\ Num2(s, 4) <= 59
        sec == /\ Len(s) >= 8
               /\ s[6] = ":" /\ AllDigits(s, 7, 2) /\ Num2(s, 7) <= 59
        frac == /\ Len(s) = 12
                /\ s[9] = "." /\ AllDigits(s, 10, 3)
    IN  IF hm /\ Len(s) = 5
        THEN Value([hour |-> Num2(s, 1), minute |-> Num2(s, 4), second |-> 0,
                    millisecond |-> 0])
        ELSE IF hm /\ sec /\ Len(s) = 8
        THEN Value([hour |-> Num2(s, 1), minute |-> Num2(s, 4), second |-> Num2(s, 7),
                    millisecond |-> 0])
        ELSE IF hm /\ sec /\ frac
        THEN Value([hour |-> Num2(s, 1), minute |-> Num2(s, 4), second |-> Num2(s, 7),
                    millisecond |-> 100 * DigitVal(s[10]) + Num2(s, 11)])
        ELSE ValueError

\* datetime.fromisoformat(s): the datetime to the second in dt, its fraction
\* in millisecond, and aware when the string gave an offset (tzinfo is set);
\* or ValueError
FromIsoFormat(s) ==
    LET d == DateFromIsoFormat(Take(s, 10))
        rest == Drop(s, 12)                     \* after the separator
        aware == Len(rest) > 6 /\ IsOffset(Drop(rest, Len(rest) - 5))
        t == TimeFromIsoFormat(IF aware THEN Take(rest, Len(rest) - 6) ELSE rest)
    IN  IF Raised(d) THEN ValueError
        ELSE IF Len(s) = 10
        THEN Value([dt |-> [year |-> d.value.year, month |-> d.value.month,
                            day |-> d.value.day, hour |-> 0, minute |-> 0, second |-> 0],
                    millisecond |-> 0, aware |-> FALSE])
        ELSE IF Raised(t) THEN ValueError
        ELSE Value([dt |-> [year |-> d.value.year, month |-> d.value.month,
                            day |-> d.value.day, hour |-> t.value.hour,
                            minute |-> t.value.minute, second |-> t.value.second],
                    millisecond |-> t.value.millisecond, aware |-> aware])

\* lines 366-377: the target the timestamp string names.  With a "T" in it
\* a "Z" is read as the offset +00:00; a string that does not parse is tried
\* once more without its "Z".
TargetOf(message_datetime) ==
    LET first == FromIsoFormat(IF "T" \in Range(message_datetime)
                               THEN Replace(message_datetime, "Z",
                                            <<"+", "0", "0", ":", "0", "0">>)
                               ELSE message_datetime)
    IN  IF Raised(first) THEN FromIsoFormat(Replace(message_datetime, "Z", <<>>))
        ELSE first

\* line 394: abs((msg['datetime'] - target_dt).total_seconds()), in milliseconds
Deviation(msg, target) ==
    LET diff == 1000 * SecondsBetween(target.dt, msg.datetime) - target.millisecond
    IN  IF diff < 0 THEN 0 - diff ELSE diff

\* line 395: the tolerance of the nearest match, in seconds
tolerance == 60

\* lines 380-387: the index of the first message whose datetime is the
\* target's to the second, 0 when there is none.  A datetime with an offset
\* is equal to none without.
ExactIndex(msgs, target) ==
    LET hits == {i \in 1 .. Len(msgs) : ~target.aware /\ msgs[i].datetime = target.dt}
    IN  IF hits = {} THEN 0 ELSE MinOf(hits)

\* lines 389-398: the index of the first message of the smallest deviation
\* under the tolerance, 0 when there is none
ClosestIndex(msgs, target) ==
    LET near == {i \in 1 .. Len(msgs) : Deviation(msgs[i], target) < 1000 * tolerance}
    IN  IF near = {} THEN 0
        ELSE MinOf({i \in near :
                       \A j \in near : Deviation(msgs[i], target) <= Deviation(msgs[j], target)})

\* lines 411-414: the copy of a message with its datetime, date and time as
\* isoformat strings
ContextMessage(msg) ==
    [datetime |-> IsoDateTime(msg.datetime),
     date |-> IsoDate(msg.date),
     time |-> IsoTime(msg.time),
     hour |-> msg.hour,
     weekday |-> msg.weekday,
     author |-> msg.author,
     text |-> msg.text]

\* the window cut one message short at its end
WindowEnd_Short(msgs, target_idx, context_size) ==
    MinOf({Len(msgs), target_idx + context_size}) - 1

\* line 406: start_idx, as the index of the first message of the window
WindowStart(target_idx, context_size) == MaxOf({1, target_idx - context_size})

\* line 407: end_idx, as the index of the last message of the window
WindowEnd(msgs, target_idx, context_size) == MinOf({Len(msgs), target_idx + context_size})

\* lines 378-421, target_dt being known.  Indexes are counted from 1 in the
\* model; target_index is the code's, counted from 0 within the window.
\* Subtracting a datetime with an offset from a message's, which has none,
\* raises TypeError (line 394, outside the try of lines 366-377).
ContextAround(msgs, target, context_size) ==
    LET exact == ExactIndex(msgs, target)
        target_idx == IF exact # 0 THEN exact ELSE ClosestIndex(msgs, target)
        start_idx == WindowStart(target_idx, context_size)
        end_idx == WindowEnd(msgs, target_idx, context_size)
    IN  IF exact = 0 /\ target.aware /\ msgs # <<>> THEN TypeError
        ELSE IF target_idx = 0 THEN Value([error |-> "Soobshchenie ne naideno"])
        ELSE Value([target_index |-> target_idx - start_idx,
                    messages |-> [k \in 1 .. (end_idx - start_idx + 1) |->
                                     ContextMessage(msgs[start_idx + k - 1])],
                    total |-> end_idx - start_idx + 1])

\* lines 364-421: target_dt is parsed once, and the messages are searched
\* for it
get_message_context(msgs, message_datetime, context_size) ==
    LET parsed == TargetOf(message_datetime)
    IN  IF Raised(parsed) THEN Value([error |-> "Ne udalos rasparsit datu"])
        ELSE CHOOSE context \in {ContextAround(msgs, target_dt, context_size) :
                                    target_dt \in {parsed.value}} : TRUE

\* lines 410-415: self.messages after get_message_context; each message of
\* the window is copied before its fields are rewritten
MessagesAfterContext(msgs, message_datetime, context_size) == msgs

\* lines 560-568: a message of the hour slice
HourMessage(msg) ==
    [datetime |-> IsoDateTime(msg.datetime),
     date |-> IsoDate(msg.date),
     time |-> IsoTime(msg.time),
     author |-> msg.author,
     text |-> msg.text]

\* the slice taken by the hour alone, whatever the date
InHourSlice_AnyDate(msg, hour, date) == msg.hour = hour

\* lines 535-548: the message is taken into the slice.  An empty date string
\* is no date (line 537); with a date that does not parse the message is
\* skipped (lines 544-545).
InHourSlice(msg, hour, date) ==
    /\ msg.hour = hour
    /\ \/ date = <<>>
       \/ date[1] = <<>>
       \/ LET target_date_obj == DateFromIsoFormat(date[1])
          IN  ~Raised(target_date_obj) /\ msg.date = target_date_obj.value

\* lines 530-570
get_messages_by_hour(msgs, hour, date) ==
    LET filtered_messages ==
            ByDatetime(SelectSeq(msgs, LAMBDA msg : InHourSlice(msg, hour, date)))
    IN  IF filtered_messages = <<>>
        THEN Value([error |-> "Net soobshchenii za", hour |-> hour, date |-> date])
        ELSE Value([hour |-> hour,
                    date |-> date,
                    total_messages |-> Len(filtered_messages),
                    messages |-> [k \in 1 .. Len(filtered_messages) |->
                                     HourMessage(filtered_messages[k])]])

\* self.messages sorted where it stands, in place of the sort of the slice
MessagesAfterHourSlice_SortedInPlace(msgs, hour, date) == ByDatetime(msgs)

\* lines 535-554: self.messages after get_messages_by_hour; the slice is a
\* list of its own, and it is the slice that is sorted
MessagesAfterHourSlice(msgs, hour, date) == msgs

\* lines 600-610: a message of the day
DayMessage(msg) ==
    [datetime |-> IsoDateTime(msg.datetime),
     date |-> IsoDate(msg.date),
     time |-> IsoTime(msg.time),
     hour |-> msg.hour,
     author |-> msg.author,
     text |-> msg.text]

\* the day's analyzer built over every message, the filter of line 584 left out
DayMessages_Unfiltered(msgs, target_date_obj) == msgs

\* line 584: the messages of the day
DayMessages(msgs, target_date_obj) == SelectSeq(msgs, LAMBDA msg : msg.date = target_date_obj)

\* lines 589-615: the day is analyzed by a ChatAnalyzer of its own over the
\* day's messages; five of its reports are called.  Whatever is raised
\* within the call is caught and returned as an error result (line 617).
DayAnalysisOf(day_messages, target_date_obj) ==
    LET basic == get_basic_stats(day_messages)
        emoji == get_emoji_stats(day_messages)
        words == get_word_stats(day_messages, 2, 30)
        activity == get_activity_stats(day_messages)
        message_length == get_message_length_stats(day_messages)
        by_time == ByDatetime(day_messages)
    IN  IF \/ Raised(basic) \/ Raised(emoji) \/ Raised(words)
           \/ Raised(activity) \/ Raised(message_length)
        THEN Value([error |-> "Oshibka analiza dnya"])
        ELSE Value([date |-> IsoDate(target_date_obj),
                    basic |-> basic.value,
                    emoji |-> emoji.value,
                    words |-> words.value,
                    activity |-> activity.value,
                    message_length |-> message_length.value,
                    messages |-> [k \in 1 .. Len(day_messages) |-> DayMessage(day_messages[k])],
                    first_message_time |-> IsoTime(by_time[1].datetime),
                    last_message_time |-> IsoTime(by_time[Len(by_time)].datetime)])

\* lines 572-618: the date is parsed, the messages of the day are picked
\* once, and the day is analyzed when it has messages
get_day_analysis(msgs, target_date) ==
    LET target_date_obj == DateFromIsoFormat(target_date)
    IN  IF Raised(target_date_obj) THEN Value([error |-> "Oshibka analiza dnya"])
        ELSE CHOOSE analysis \in
                 {IF day_messages = <<>>
                  THEN Value([error |-> "Net soobshchenii za",
                              date |-> IsoDate(target_date_obj.value)])
                  ELSE DayAnalysisOf(day_messages, target_date_obj.value) :
                      day_messages \in {DayMessages(msgs, target_date_obj.value)}} : TRUE

----------------------------------------------------------------------------
(* ChatAnalyzer as a state machine: an analyzer is built over a message     *)
(* list, and each call of a report leaves its name in op and what it        *)
(* returned, or the exception it raised, in result, until the caller has    *)
(* taken it.  Calls follow one another.                                     *)

\* Messages as the parser builds them.  Two share their second, one is
\* earlier than the one before it, one has no text, one an emoji, one the
\* informal Cyrillic word U+0442 U+044B.
MessagePool ==
    <<MakeMessage(Stamp(1, 1, 2024, 10, 5, 0), <<"B">>, <<"a", "B", " ", "a", "b", "?">>),
      MakeMessage(Stamp(1, 1, 2024, 10, 5, 0), <<"A">>, <<"a", "A", "a">>),
      MakeMessage(Stamp(2, 1, 2024, 9, 0, 0), <<"A">>, <<>>),
      MakeMessage(Stamp(31, 12, 2023, 23, 59, 59), <<"B">>, <<"A", "B", "A", "U+1F600", "!">>),
      MakeMessage(Stamp(3, 1, 2024, 12, 0, 0), <<"A">>, <<"U+0442", "U+044B", " ", "U+2764">>)>>

\* the longest message list an analyzer is built over
MaxMsgs == 3

\* the message lists: every sequence of pool messages up to MaxMsgs
MessageLists == SeqsUpTo(Range(MessagePool), MaxMsgs)

\* the words searched for
SearchWords == {<<>>, <<"a">>, <<"A", "b">>, <<"a", "a">>}

\* ChatAnalyzer(messages) (lines 107-108), over any message list
InitAnalyzer ==
    /\ file = <<>>
    /\ messages = <<>>
    /\ returned = <<>>
    /\ amessages \in MessageLists
    /\ op = <<"none">>
    /\ result = <<>>
    /\ WebIdle

\* analyzer.get_basic_stats()
GetBasicStats ==
    /\ op = <<"none">>
    /\ op' = <<"get_basic_stats">>
    /\ result' = get_basic_stats(amessages)
    /\ UNCHANGED <<file, messages, returned, amessages, webvars>>

\* analyzer.get_emoji_stats()
GetEmojiStats ==
    /\ op = <<"none">>
    /\ op' = <<"get_emoji_stats">>
    /\ result' = get_emoji_stats(amessages)
    /\ UNCHANGED <<file, messages, returned, amessages, webvars>>

\* analyzer.get_activity_stats()
GetActivityStats ==
    /\ op = <<"none">>
    /\ op' = <<"get_activity_stats">>
    /\ result' = get_activity_stats(amessages)
    /\ UNCHANGED <<file, messages, returned, amessages, webvars>>

\* analyzer.get_message_length_stats()
GetMessageLengthStats ==
    /\ op = <<"none">>
    /\ op' = <<"get_message_length_stats">>
    /\ result' = get_message_length_stats(amessages)
    /\ UNCHANGED <<file, messages, returned, amessages, webvars>>

\* analyzer.get_interesting_stats()
GetInterestingStats ==
    /\ op = <<"none">>
    /\ op' = <<"get_interesting_stats">>
    /\ result' = get_interesting_stats(amessages)
    /\ UNCHANGED <<file, messages, returned, amessages, webvars>>

\* analyzer.get_ghosting_stats()
GetGhostingStats ==
    /\ op = <<"none">>
    /\ op' = <<"get_ghosting_stats">>
    /\ \E authors \in Orders(AuthorsOf(amessages)) :
           result' = get_ghosting_stats(amessages, authors)
    /\ UNCHANGED <<file, messages, returned, amessages, webvars>>

\* analyzer.get_activity_heatmap()
GetActivityHeatmap ==
    /\ op = <<"none">>
    /\ op' = <<"get_activity_heatmap">>
    /\ result' = get_activity_heatmap(amessages)
    /\ UNCHANGED <<file, messages, returned, amessages, webvars>>

\* analyzer.get_semantic_analysis()
GetSemanticAnalysis ==
    /\ op = <<"none">>
    /\ op' = <<"get_semantic_analysis">>
    /\ result' = get_semantic_analysis(amessages)
    /\ UNCHANGED <<file, messages, returned, amessages, webvars>>

\* analyzer.get_message_series_stats()
GetMessageSeriesStats ==
    /\ op = <<"none">>
    /\ op' = <<"get_message_series_stats">>
    /\ result' = get_message_series_stats(amessages)
    /\ UNCHANGED <<file, messages, returned, amessages, webvars>>

\* analyzer.get_reaction_speed_stats()
GetReactionSpeedStats ==
    /\ op = <<"none">>
    /\ op' = <<"get_reaction_speed_stats">>
    /\ result' = get_reaction_speed_stats(amessages)
    /\ UNCHANGED <<file, messages, returned, amessages, webvars>>

\* analyzer.get_participant_balance()
GetParticipantBalance ==
    /\ op = <<"none">>
    /\ op' = <<"get_participant_balance">>
    /\ result' = get_participant_balance(amessages)
    /\ UNCHANGED <<file, messages, returned, amessages, webvars>>

\* analyzer.get_emotional_analysis()
GetEmotionalAnalysis ==
    /\ op = <<"none">>
    /\ op' = <<"get_emotional_analysis">>
    /\ result' = get_emotional_analysis(amessages)
    /\ UNCHANGED <<file, messages, returned, amessages, webvars>>

\* analyzer.get_communication_style()
GetCommunicationStyle ==
    /\ op = <<"none">>
    /\ op' = <<"get_communication_style">>
    /\ result' = get_communication_style(amessages)
    /\ UNCHANGED <<file, messages, returned, amessages, webvars>>

\* analyzer.get_conflict_analysis()
GetConflictAnalysis ==
    /\ op = <<"none">>
    /\ op' = <<"get_conflict_analysis">>
    /\ result' = get_conflict_analysis(amessages)
    /\ UNCHANGED <<file, messages, returned, amessages, webvars>>

\* analyzer.get_seasonality_analysis()
GetSeasonalityAnalysis ==
    /\ op = <<"none">>
    /\ op' = <<"get_seasonality_analysis">>
    /\ result' = get_seasonality_analysis(amessages)
    /\ UNCHANGED <<file, messages, returned, amessages, webvars>>

\* analyzer.get_full_analysis()
GetFullAnalysis ==
    /\ op = <<"none">>
    /\ op' = <<"get_full_analysis">>
    /\ \E authors \in Orders(AuthorsOf(amessages)) :
           result' = get_full_analysis(amessages, authors)
    /\ UNCHANGED <<file, messages, returned, amessages, webvars>>

\* analyzer.get_word_stats(), with its default arguments (line 194)
GetWordStats ==
    /\ op = <<"none">>
    /\ op' = <<"get_word_stats">>
    /\ result' = get_word_stats(amessages, 2, 50)
    /\ UNCHANGED <<file, messages, returned, amessages, webvars>>

\* analyzer.search_word(word, case_sensitive)
SearchWord ==
    \E word \in SearchWords, case_sensitive \in BOOLEAN :
        /\ op = <<"none">>
        /\ op' = <<"search_word", word, case_sensitive>>
        /\ result' = search_word(amessages, word, case_sensitive)
        /\ UNCHANGED <<file, messages, returned, amessages, webvars>>

\* The timestamps a context is asked for: that of a message, with and
\* without "Z" and an offset, with a space for the "T", without seconds and
\* with a fraction; others between two messages, nearer to the later one or
\* as near to both; others 59 and 60 seconds from the nearest message;
\* dates without a time; strings that are no timestamp.
ContextQueries ==
    LET at(d, m, y, H, M, S) == IsoDateTime(Stamp(d, m, y, H, M, S))
        on(d, m, y) == IsoDate(Stamp(d, m, y, 0, 0, 0))
    IN  {at(1, 1, 2024, 10, 5, 0),
         at(1, 1, 2024, 10, 5, 0) \o <<"Z">>,
         at(1, 1, 2024, 10, 5, 0) \o <<"+", "0", "5", ":", "0", "0">>,
         on(1, 1, 2024) \o <<" ">> \o <<"1", "0", ":", "0", "5">>,
         at(1, 1, 2024, 10, 5, 0) \o <<".", "5", "0", "0">>,
         at(1, 1, 2024, 10, 5, 30),
         at(1, 1, 2024, 10, 5, 20),
         at(1, 1, 2024, 10, 5, 20) \o <<".", "5", "0", "0">>,
         at(1, 1, 2024, 10, 4, 1),
         at(1, 1, 2024, 10, 4, 0),
         at(1, 1, 2024, 10, 6, 0),
         on(1, 1, 2024),
         on(1, 1, 2024) \o <<"Z">>,
         at(30, 2, 2024, 10, 5, 0),
         <<"x">>,
         <<>>}

\* the window sizes, the default of line 364 among them
ContextSizes == {0, 1, 10}

\* analyzer.get_message_context(message_datetime, context_size)
GetMessageContext ==
    \E message_datetime \in ContextQueries, context_size \in ContextSizes :
        /\ op = <<"none">>
        /\ op' = <<"get_message_context", message_datetime, context_size>>
        /\ result' = get_message_context(amessages, message_datetime, context_size)
        /\ amessages' = MessagesAfterContext(amessages, message_datetime, context_size)
        /\ UNCHANGED <<file, messages, returned, webvars>>

\* the hours asked for: two that messages have, one that none has
SliceHours == {10, 23, 5}

\* the dates asked for, as strings: days of the pool, a day without
\* messages, a string that is no date, the empty string
DateQueries ==
    {IsoDate(Stamp(1, 1, 2024, 0, 0, 0)),
     IsoDate(Stamp(2, 1, 2024, 0, 0, 0)),
     IsoDate(Stamp(5, 1, 2024, 0, 0, 0)),
     <<"x">>,
     <<>>}

\* analyzer.get_messages_by_hour(hour, date), date None or a string
GetMessagesByHour ==
    \E hour \in SliceHours, date \in {<<>>} \cup {<<d>> : d \in DateQueries} :
        /\ op = <<"none">>
        /\ op' = <<"get_messages_by_hour", hour, date>>
        /\ result' = get_messages_by_hour(amessages, hour, date)
        /\ amessages' = MessagesAfterHourSlice(amessages, hour, date)
        /\ UNCHANGED <<file, messages, returned, webvars>>

\* analyzer.get_day_analysis(target_date)
GetDayAnalysis ==
    \E target_date \in DateQueries :
        /\ op = <<"none">>
        /\ op' = <<"get_day_analysis", target_date>>
        /\ result' = get_day_analysis(amessages, target_date)
        /\ UNCHANGED <<file, messages, returned, amessages, webvars>>

\* the caller has taken what the call returned; the analyzer is as it was
\* built, no report changes self.messages
Return ==
    /\ op # <<"none">>
    /\ op' = <<"none">>
    /\ result' = <<>>
    /\ UNCHANGED <<file, messages, returned, amessages, webvars>>

AnalyzerNext ==
    \/ GetBasicStats
    \/ GetEmojiStats
    \/ GetActivityStats
    \/ GetMessageLengthStats
    \/ GetInterestingStats
    \/ GetGhostingStats
    \/ GetActivityHeatmap
    \/ GetSemanticAnalysis
    \/ GetMessageSeriesStats
    \/ GetReactionSpeedStats
    \/ GetParticipantBalance
    \/ GetEmotionalAnalysis
    \/ GetCommunicationStyle
    \/ GetConflictAnalysis
    \/ GetSeasonalityAnalysis
    \/ GetFullAnalysis
    \/ GetWordStats
    \/ SearchWord
    \/ GetMessageContext
    \/ GetMessagesByHour
    \/ GetDayAnalysis
    \/ Return

AnalyzerSpec == InitAnalyzer /\ [][AnalyzerNext]_vars

----------------------------------------------------------------------------
(* The queries over message lists made for them: an analyzer is built over  *)
(* a list, and contexts, hour slices and day analyses are asked of it.      *)

\* Messages as the parser builds them.  Two share their second, a third is
\* 40 seconds later, a fourth in the same hour of the next day, a fifth one
\* second before the midnight the first day begins with.
QueryPool ==
    <<MakeMessage(Stamp(1, 1, 2024, 10, 5, 0), <<"B">>, <<"a", "b", " ", "U+1F600">>),
      MakeMessage(Stamp(1, 1, 2024, 10, 5, 0), <<"A">>, <<"a">>),
      MakeMessage(Stamp(1, 1, 2024, 10, 5, 40), <<"A">>, <<"a", "b", " ", "a", "b">>),
      MakeMessage(Stamp(2, 1, 2024, 10, 0, 0), <<"B">>, <<>>),
      MakeMessage(Stamp(31, 12, 2023, 23, 59, 59), <<"A">>, <<"b", "?">>)>>

\* the longest message list the queries are asked of
MaxQueryMsgs == 3

QueryLists == SeqsUpTo(Range(QueryPool), MaxQueryMsgs)

InitQueries ==
    /\ file = <<>>
    /\ messages = <<>>
    /\ returned = <<>>
    /\ amessages \in QueryLists
    /\ op = <<"none">>
    /\ result = <<>>
    /\ WebIdle

QueryNext ==
    \/ GetMessageContext
    \/ GetMessagesByHour
    \/ GetDayAnalysis
    \/ Return

QuerySpec == InitQueries /\ [][QueryNext]_vars

----------------------------------------------------------------------------
(* The ghosting report over chats made for it: the messages follow one      *)
(* another in time, an hour, exactly 24 hours, a second more than 24 hours  *)
(* or 30 hours apart, or share their second.                                *)

\* the authors: three names, and the empty name the parser gives a header
\* whose author is blank
GhostAuthors == {<<"A">>, <<"B">>, <<"C">>, <<>>}

\* the times of the messages
GhostStamps ==
    {Stamp(1, 1, 2024, 9, 0, 0),
     Stamp(1, 1, 2024, 10, 0, 0),
     Stamp(2, 1, 2024, 10, 0, 0),
     Stamp(2, 1, 2024, 10, 0, 1),
     Stamp(3, 1, 2024, 16, 0, 1)}

\* the longest chat the ghosting report is asked of
MaxGhostMsgs == 3

GhostLists ==
    {q \in SeqsUpTo({MakeMessage(dt, a, <<"a">>) : dt \in GhostStamps, a \in GhostAuthors},
                    MaxGhostMsgs) :
        \A i \in 2 .. Len(q) : Seconds(q[i - 1].datetime) <= Seconds(q[i].datetime)}

InitGhosting ==
    /\ file = <<>>
    /\ messages = <<>>
    /\ returned = <<>>
    /\ amessages \in GhostLists
    /\ op = <<"none">>
    /\ result = <<>>
    /\ WebIdle

GhostingNext ==
    \/ GetGhostingStats
    \/ Return

GhostingSpec == InitGhosting /\ [][GhostingNext]_vars

----------------------------------------------------------------------------
(* The series report over chats made for it: a chat is a few bursts, each   *)
(* by one author with its messages 60 seconds apart, a burst 299 or 300     *)
(* seconds after the one before it.                                         *)

\* the numbers of messages of a burst; two bursts by one author 299 seconds
\* apart are one run, so that runs of 5, 7, 10 and more messages come about
BurstLengths == {1, 2, 3, 4, 6, 11, 20, 21}

\* the bursts: by whom, how many messages, how long after the burst before
Bursts == [author : {<<"A">>, <<"B">>}, count : BurstLengths, after : {299, 300}]

\* the most bursts of a chat
MaxBursts == 2

\* the longest chat the series report is asked of
MaxSeriesMsgs == 24

\* the messages of a chat of bursts, each as <<author, seconds after the
\* message before>>
RECURSIVE BurstSteps(_)
BurstSteps(bursts) ==
    IF bursts = <<>> THEN <<>>
    ELSE <<<<bursts[1].author, bursts[1].after>>>>
             \o [k \in 1 .. (bursts[1].count - 1) |-> <<bursts[1].author, 60>>]
             \o BurstSteps(Tail(bursts))

\* the chat as the parser builds it: the messages of steps from the i-th
\* on, the one before them t seconds after the first, which is at 10:00:00
RECURSIVE ChatFrom(_, _, _)
ChatFrom(steps, i, t) ==
    IF i > Len(steps) THEN <<>>
    ELSE LET now == IF i = 1 THEN 0 ELSE t + steps[i][2]
             at == Stamp(1, 1, 2024, 10 + (now \div 3600), (now % 3600) \div 60, now % 60)
         IN  <<MakeMessage(at, steps[i][1], <<"a">>)>> \o ChatFrom(steps, i + 1, now)

ChatOf(bursts) == ChatFrom(BurstSteps(bursts), 1, 0)

SeriesLists ==
    {ChatOf(bursts) : bursts \in {b \in SeqsUpTo(Bursts, MaxBursts) :
                                     SumSeq([k \in 1 .. Len(b) |-> b[k].count]) <= MaxSeriesMsgs}}

InitSeries ==
    /\ file = <<>>
    /\ messages = <<>>
    /\ returned = <<>>
    /\ amessages \in SeriesLists
    /\ op = <<"none">>
    /\ result = <<>>
    /\ WebIdle

SeriesNext ==
    \/ GetMessageSeriesStats
    \/ Return

SeriesSpec == InitSeries /\ [][SeriesNext]_vars

----------------------------------------------------------------------------
(* The response reports over chats made for them: two authors, messages in  *)
(* any order, at times that lie on and beside the edges the reports use:    *)
(* the gaps are 0 s, 30 s, 5 min, 6 h less 30 s, 6 h, 6 h 5 min, 18 h,      *)
(* 24 h less 30 s, 24 h and 24 h 5 min.                                     *)

TimingStamps ==
    {Stamp(1, 1, 2024, 10, 0, 0),
     Stamp(1, 1, 2024, 10, 5, 0),
     Stamp(1, 1, 2024, 10, 5, 30),
     Stamp(1, 1, 2024, 16, 5, 0),
     Stamp(2, 1, 2024, 10, 5, 0)}

\* the longest chat the response reports are asked of
MaxTimingMsgs == 3

TimingLists ==
    SeqsUpTo({MakeMessage(dt, a, <<"a">>) : dt \in TimingStamps, a \in {<<"A">>, <<"B">>}},
             MaxTimingMsgs)

InitTiming ==
    /\ file = <<>>
    /\ messages = <<>>
    /\ returned = <<>>
    /\ amessages \in TimingLists
    /\ op = <<"none">>
    /\ result = <<>>
    /\ WebIdle

TimingNext ==
    \/ GetInterestingStats
    \/ GetReactionSpeedStats
    \/ Return

TimingSpec == InitTiming /\ [][TimingNext]_vars

----------------------------------------------------------------------------
(* The activity heatmap over chats made for it: a spread of messages, one   *)
(* in each of the first hours of a day, and a few messages more.            *)

\* the numbers of hours a spread covers: none, one, and around the ten
\* periods the report lists
HeatSpreads == {0, 1, 9, 10, 11, 12}

\* one message in each of the hours 0 .. k - 1 of the day of January 2024
Spread(day, k) ==
    [j \in 1 .. k |-> MakeMessage(Stamp(day, 1, 2024, j - 1, 0, 0), <<"A">>, <<"a">>)]

\* the messages more: in a cell of the Monday spread (the same day, a week
\* later), on a Wednesday, in a cell of the Sunday spread
HeatExtras ==
    {MakeMessage(Stamp(1, 1, 2024, 0, 0, 0), <<"B">>, <<"a">>),
     MakeMessage(Stamp(8, 1, 2024, 0, 30, 0), <<"B">>, <<"a">>),
     MakeMessage(Stamp(3, 1, 2024, 23, 0, 0), <<"B">>, <<"a">>),
     MakeMessage(Stamp(7, 1, 2024, 5, 0, 0), <<"B">>, <<"a">>)}

\* the most messages more
MaxHeatExtra == 2

HeatLists ==
    {Spread(day, k) \o x : day \in {1, 7}, k \in HeatSpreads,
                           x \in SeqsUpTo(HeatExtras, MaxHeatExtra)}

InitHeat ==
    /\ file = <<>>
    /\ messages = <<>>
    /\ returned = <<>>
    /\ amessages \in HeatLists
    /\ op = <<"none">>
    /\ result = <<>>
    /\ WebIdle

HeatNext ==
    \/ GetActivityHeatmap
    \/ Return

HeatSpec == InitHeat /\ [][HeatNext]_vars

----------------------------------------------------------------------------
(* The length reports over chats made for them: messages whose texts have   *)
(* lengths on and beside the edges of the length buckets.                   *)

TextLengthPool == {0, 1, 9, 10, 49, 50, 51}

\* the longest chat the length reports are asked of
MaxLengthMsgs == 3

LengthLists ==
    SeqsUpTo({MakeMessage(Stamp(1, 1, 2024, 10, 0, 0), <<"A">>, [i \in 1 .. n |-> "a"]) :
                 n \in TextLengthPool},
             MaxLengthMsgs)

InitLength ==
    /\ file = <<>>
    /\ messages = <<>>
    /\ returned = <<>>
    /\ amessages \in LengthLists
    /\ op = <<"none">>
    /\ result = <<>>
    /\ WebIdle

LengthNext ==
    \/ GetSemanticAnalysis
    \/ GetMessageLengthStats
    \/ Return

LengthSpec == InitLength /\ [][LengthNext]_vars

----------------------------------------------------------------------------
(* The web layer (chat_analyzer_app.py): the requests are handled by        *)
(* threads that share the module's globals.  A step of a thread is one read *)
(* or write of a global together with the local work before it; the steps   *)
(* of the threads interleave in any order.                                  *)

\* the files uploaded
WebFiles == {<<HdrA>>, <<HdrB, Cont1>>}

\* the words searched for
WebWords == {<<>>, <<"a">>}

InFlight(t) == threads[t].kind # "idle"

UploadInFlight == \E t \in 1 .. MaxInFlight : threads[t].kind = "upload"

\* a request of the kind is received by thread t, the first free thread,
\* which starts at pc.  quiet
\* and after are not of the code: quiet says of an analysis request that the
\* file named by after was the current file when the request was received,
\* no upload being handled then or since.
Receive(t, kind, arg, pc) ==
    /\ ~InFlight(t) /\ \A u \in 1 .. (t - 1) : InFlight(u)
    /\ started < MaxRequests
    /\ started' = started + 1
    /\ threads' =
           [u \in 1 .. MaxInFlight |->
               IF u = t
               THEN [kind |-> kind, arg |-> arg, pc |-> pc, chat_file |-> <<>>,
                     local |-> <<>>,
                     quiet |-> kind = "analysis" /\ ~UploadInFlight
                                   /\ current_chat_file # <<>>,
                     after |-> IF kind = "analysis" THEN current_chat_file ELSE <<>>]
               ELSE IF kind = "upload" /\ InFlight(u)
               THEN [threads[u] EXCEPT !.quiet = FALSE]
               ELSE threads[u]]

\* thread t sends its response and is free again
Respond(t, status, body) ==
    /\ threads' = [threads EXCEPT ![t] = Idle]
    /\ response' = [kind |-> threads[t].kind, quiet |-> threads[t].quiet,
                    after |-> threads[t].after, status |-> status, body |-> body]

Goto(t, pc) == threads' = [threads EXCEPT ![t].pc = pc]

At(t, pc) == InFlight(t) /\ threads[t].pc = pc

\* POST /api/upload with a file (line 117)
StartUpload ==
    \E t \in 1 .. MaxInFlight, f \in WebFiles :
        /\ Len(uploads) + Cardinality({u \in 1 .. MaxInFlight : At(u, "save")}) < MaxUploads
        /\ Receive(t, "upload", f, "save")
        /\ UNCHANGED <<corevars, current_chat_file, analysis_cache, analyzer_instance,
                       messages_cache, uploads, response>>

\* POST /api/upload without a file (lines 122-128): status 400
UploadNothing ==
    /\ started < MaxRequests
    /\ started' = started + 1
    /\ response' = [kind |-> "upload", quiet |-> FALSE, after |-> <<>>,
                    status |-> 400, body |-> <<"error">>]
    /\ UNCHANGED <<corevars, current_chat_file, analysis_cache, analyzer_instance,
                   messages_cache, uploads, threads>>

\* GET /api/refresh (line 107)
StartRefresh ==
    \E t \in 1 .. MaxInFlight :
        /\ Receive(t, "refresh", <<>>, "clear_analysis")
        /\ UNCHANGED <<corevars, current_chat_file, analysis_cache, analyzer_instance,
                       messages_cache, uploads, response>>

\* GET /api/analysis (line 98)
StartAnalysis ==
    \E t \in 1 .. MaxInFlight :
        /\ Receive(t, "analysis", <<>>, "get_file")
        /\ UNCHANGED <<corevars, current_chat_file, analysis_cache, analyzer_instance,
                       messages_cache, uploads, response>>

\* GET /api/search (lines 178-187): status 400 without a word
StartSearch ==
    \E t \in 1 .. MaxInFlight, word \in WebWords :
        /\ IF word = <<>>
           THEN /\ started < MaxRequests
                /\ started' = started + 1
                /\ response' = [kind |-> "search", quiet |-> FALSE, after |-> <<>>,
                                status |-> 400, body |-> <<"error">>]
                /\ UNCHANGED threads
           ELSE /\ Receive(t, "search", word, "get_file")
                /\ UNCHANGED response
        /\ UNCHANGED <<corevars, current_chat_file, analysis_cache, analyzer_instance,
                       messages_cache, uploads>>

\* upload_file, lines 131-139: the file is saved under a name of its own and
\* made the current file
UploadSave ==
    \E t \in 1 .. MaxInFlight :
        /\ At(t, "save")
        /\ uploads' = Append(uploads, threads[t].arg)
        /\ current_chat_file' = <<Len(uploads) + 1>>
        /\ Goto(t, "clear_analysis")
        /\ UNCHANGED <<corevars, analysis_cache, analyzer_instance, messages_cache,
                       started, response>>

\* clear_cache, line 83
ClearAnalysis ==
    \E t \in 1 .. MaxInFlight :
        /\ At(t, "clear_analysis")
        /\ analysis_cache' = <<>>
        /\ Goto(t, "clear_analyzer")
        /\ UNCHANGED <<corevars, current_chat_file, analyzer_instance, messages_cache,
                       uploads, started, response>>

\* clear_cache, lines 84-85 (no handler reads _messages_cache, its write
\* goes with the write before it); the upload is answered (lines 144-148),
\* the refresh goes on to get_analysis (line 111)
ClearAnalyzer ==
    \E t \in 1 .. MaxInFlight :
        /\ At(t, "clear_analyzer")
        /\ analyzer_instance' = <<>>
        /\ messages_cache' = <<>>
        /\ IF threads[t].kind = "upload"
           THEN Respond(t, 200, <<"success">>)
           ELSE Goto(t, "get_file") /\ UNCHANGED response
        /\ UNCHANGED <<corevars, current_chat_file, analysis_cache, uploads, started>>

\* get_analysis, lines 35-41, and get_analyzer, lines 60-66: without a current
\* file get_analysis returns an error entry and get_analyzer raises
\* ValueError (status 500, lines 190-191); an uploaded file is never removed
GetFile ==
    \E t \in 1 .. MaxInFlight :
        /\ At(t, "get_file")
        /\ IF current_chat_file = <<>>
           THEN Respond(t, IF threads[t].kind = "search" THEN 500 ELSE 200, <<"error">>)
           ELSE /\ threads' = [threads EXCEPT ![t].chat_file = current_chat_file,
                                              ![t].pc = "check_cache"]
                /\ UNCHANGED response
        /\ UNCHANGED <<corevars, current_chat_file, analysis_cache, analyzer_instance,
                       messages_cache, uploads, started>>

\* get_analysis, line 43, and get_analyzer, line 68
CheckCache ==
    \E t \in 1 .. MaxInFlight :
        /\ At(t, "check_cache")
        /\ LET cache == IF threads[t].kind = "search" THEN analyzer_instance
                        ELSE analysis_cache
           IN  Goto(t, IF cache = <<>> THEN "parse" ELSE "return")
        /\ UNCHANGED <<corevars, current_chat_file, analysis_cache, analyzer_instance,
                       messages_cache, uploads, started, response>>

\* get_analysis, lines 45-47, and get_analyzer, lines 70-72
ParseFile ==
    \E t \in 1 .. MaxInFlight :
        /\ At(t, "parse")
        /\ \E parsed \in {ParseMessages(<<>>, uploads[threads[t].chat_file[1]])} :
               /\ messages_cache' = <<parsed>>
               /\ threads' = [threads EXCEPT ![t].local = parsed, ![t].pc = "set_analyzer"]
        /\ UNCHANGED <<corevars, current_chat_file, analysis_cache, analyzer_instance,
                       uploads, started, response>>

\* get_analysis, lines 50-51, and get_analyzer, lines 75-76
SetAnalyzer ==
    \E t \in 1 .. MaxInFlight :
        /\ At(t, "set_analyzer")
        /\ analyzer_instance' = <<[messages |-> threads[t].local]>>
        /\ Goto(t, IF threads[t].kind = "search" THEN "return" ELSE "set_analysis")
        /\ UNCHANGED <<corevars, current_chat_file, analysis_cache, messages_cache,
                       uploads, started, response>>

\* get_analysis, line 52; an exception of get_full_analysis leaves the cache
\* as it is and is answered with status 500 (lines 103-104, 113-114)
SetAnalysis ==
    \E t \in 1 .. MaxInFlight :
        /\ At(t, "set_analysis")
        /\ \E authors \in Orders(AuthorsOf(threads[t].local)) :
             \E analysis \in {get_full_analysis(threads[t].local, authors)} :
               IF Raised(analysis)
               THEN Respond(t, 500, <<"error">>) /\ UNCHANGED analysis_cache
               ELSE /\ analysis_cache' = <<analysis.value>>
                    /\ Goto(t, "return")
                    /\ UNCHANGED response
        /\ UNCHANGED <<corevars, current_chat_file, analyzer_instance, messages_cache,
                       uploads, started>>

\* get_analysis, line 54, and the answer of the route (lines 102, 112);
\* get_analyzer, line 78, and the search on the analyzer (lines 188-189).
\* The global is read again: it is None when a clear_cache came between, and
\* then the analysis answered is null and the search fails (status 500).
ReturnCached ==
    \E t \in 1 .. MaxInFlight :
        /\ At(t, "return")
        /\ IF threads[t].kind = "search"
           THEN IF analyzer_instance = <<>>
                THEN Respond(t, 500, <<"error">>)
                ELSE \E found \in {search_word(analyzer_instance[1].messages,
                                               threads[t].arg, FALSE)} :
                         Respond(t, IF Raised(found) THEN 500 ELSE 200, found)
           ELSE Respond(t, 200, analysis_cache)
        /\ UNCHANGED <<corevars, current_chat_file, analysis_cache, analyzer_instance,
                       messages_cache, uploads, started>>

InitWeb ==
    /\ file = <<>>
    /\ messages = <<>>
    /\ returned = <<>>
    /\ AnalyzerIdle
    /\ WebIdle

WebNext ==
    \/ StartUpload
    \/ UploadNothing
    \/ StartRefresh
    \/ StartAnalysis
    \/ StartSearch
    \/ UploadSave
    \/ ClearAnalysis
    \/ ClearAnalyzer
    \/ GetFile
    \/ CheckCache
    \/ ParseFile
    \/ SetAnalyzer
    \/ SetAnalysis
    \/ ReturnCached

WebSpec == InitWeb /\ [][WebNext]_vars

----------------------------------------------------------------------------
(* Claims about the parser                                                  *)

Parsed == Len(returned) >= 1

\* the line starts a message: MESSAGE_PATTERN matches it once line 35 has
\* stripped it
IsHeader(l) == MESSAGE_PATTERN(CleanLine(l)).matched

HeaderStamp(l) ==
    LET m == MESSAGE_PATTERN(CleanLine(l)) IN Strptime(m.date_str, m.time_str)

\* only the permissive pattern matches the line, with a calendar date and time
IsSystemLine(l) ==
    LET m == SYSTEM_PATTERN(CleanLine(l))
    IN  ~IsHeader(l) /\ m.matched /\ Strptime(m.date_str, m.time_str).ok

\* the positions of the header lines of f from line i on, in file order
RECURSIVE HeaderIndexes(_, _)
HeaderIndexes(f, i) ==
    IF i > Len(f) THEN <<>>
    ELSE (IF IsHeader(f[i]) THEN <<i>> ELSE <<>>) \o HeaderIndexes(f, i + 1)

IsPrefix(p, s) == Len(p) <= Len(s) /\ SubSeq(s, 1, Len(p)) = p

\* msg is the message header line l started
StartedBy(msg, l) ==
    LET m == MESSAGE_PATTERN(CleanLine(l))
    IN  /\ msg.datetime = HeaderStamp(l).dt
        /\ msg.author = Strip(m.author)
        /\ IsPrefix(Strip(m.text), msg.text)

\* a system line stands before the first header line
SystemStart(f) ==
    \E j \in 1 .. Len(f) : IsSystemLine(f[j]) /\ \A i \in 1 .. j : ~IsHeader(f[i])

AllHeadersValid == \A i \in 1 .. Len(file) : IsHeader(file[i]) => HeaderStamp(file[i]).ok

\* the first parse returned one message per header line, in file order, after
\* extra leading messages
HeadersInOrder(extra) ==
    LET hs == HeaderIndexes(file, 1)
        r == returned[1]
    IN  /\ Len(r) = Len(hs) + extra
        /\ \A k \in 1 .. Len(hs) : StartedBy(r[extra + k], file[hs[k]])

C2_InvalidHeaderStartsNothing ==
    (Parsed /\ \A i \in 1 .. Len(file) : ~IsSystemLine(file[i]))
        => Len(returned[1]) =
               Cardinality({i \in 1 .. Len(file) :
                               IsHeader(file[i]) /\ HeaderStamp(file[i]).ok})

\* C3: a file that is one well-formed header line parses to one message with
\* the date, time, hour and weekday of the bracket, the author trimmed and the
\* text trimmed.
C3_HeaderRoundTrip ==
    (Parsed /\ Len(file) = 1) =>
        \A v \in ValidStamps, a \in Authors, t \in Texts :
            file = <<HeaderLine(v.s, a.raw, t.raw)>>
                => returned[1] =
                       <<[datetime |-> v.s,
                          date |-> [year |-> v.s.year, month |-> v.s.month, day |-> v.s.day],
                          time |-> [hour |-> v.s.hour, minute |-> v.s.minute,
                                    second |-> v.s.second],
                          hour |-> v.s.hour,
                          weekday |-> v.wd,
                          author |-> a.trimmed,
                          text |-> t.trimmed]>>

\* a one-header file whose author and text carry whitespace to trim, parsed
C3_Witness ==
    /\ Parsed
    /\ \E v \in ValidStamps, a \in Authors, t \in Texts :
          /\ file = <<HeaderLine(v.s, a.raw, t.raw)>>
          /\ a.raw # a.trimmed /\ t.raw # t.trimmed /\ v.wd = 2
    /\ Len(returned[1]) = 1

\* what a line contributes: the line without its leading invisible characters
\* and without the whitespace around it
Content(l) == Strip(LStrip(l, Invisible))

\* C4: a header line followed by two non-blank lines that are no header lines
\* parses to one message whose text is the header's text and the two lines,
\* joined by single spaces.
C4_ContinuationMerging ==
    \A h \in {HdrA, HdrB, HdrMedia}, l1 \in LinePool, l2 \in LinePool :
        (/\ Parsed /\ file = <<h, l1, l2>>
         /\ Content(l1) # <<>> /\ Content(l2) # <<>>
         /\ ~MESSAGE_PATTERN(Content(l1)).matched
         /\ ~MESSAGE_PATTERN(Content(l2)).matched)
            => /\ Len(returned[1]) = 1
               /\ returned[1][1].text =
                      Strip(Join(<<Strip(MESSAGE_PATTERN(h).text), Content(l1), Content(l2)>>))

\* C5: a valid header line behind any run of the invisible characters U+200E,
\* U+200F, U+202A..U+202E, U+2066..U+2069 parses as the line without the run.
C5_InvisiblePrefixStripped ==
    \A r \in Runs, pre \in {<<>>, <<HdrB>>} :
        (Parsed /\ file = pre \o <<r \o HdrA>>)
            => returned[1] = ParseMessages(<<>>, pre \o <<HdrA>>)

\* C6: with U+200E put before any one header line of the file, the parser
\* returns the sequence it returns for the file as it is.
C6_LeftToRightMarkTolerated ==
    Parsed =>
        \A i \in 1 .. Len(file) :
            MESSAGE_PATTERN(file[i]).matched
                => ParseMessages(<<>>, [file EXCEPT ![i] = <<LRM>> \o file[i]])
                       = returned[1]

\* a file with a header line after the first line, parsed into two messages
C6_Witness ==
    /\ Parsed
    /\ \E i \in 2 .. Len(file) : MESSAGE_PATTERN(file[i]).matched
    /\ Len(returned[1]) = 2

\* C7: a second parse() on the same parser over the same file returns what the
\* first returned.
C7_ParseIsPure ==
    Len(returned) >= 2 => returned[2] = returned[1]

\* C21: a non-blank line that is no header line, read while a message is being
\* assembled, adds its content to the text of that message: the line without
\* its leading invisible characters and the whitespace around it, no other
\* character dropped and no such line skipped.
C21_ContinuationContentKept ==
    \A h \in {HdrA, HdrB, HdrMedia}, l \in LinePool :
        (/\ Parsed /\ file = <<h, l>>
         /\ Content(l) # <<>>
         /\ ~MESSAGE_PATTERN(Content(l)).matched)
            => /\ Len(returned[1]) = 1
               /\ returned[1][1].text =
                      Strip(Join(<<Strip(MESSAGE_PATTERN(h).text), Content(l)>>))

\* the text a system line starts its message with: the text part of the
\* permissive pattern, the whole line when that part is empty
SystemText(l) ==
    LET t == Strip(SYSTEM_PATTERN(CleanLine(l)).text)
    IN  IF t # <<>> THEN t ELSE CleanLine(l)

\* C22: a system line read while no message is being assembled starts a
\* message whose text is the system line's text followed by the continuation
\* lines, joined by single spaces.
C22_SystemLineText ==
    \A s \in LinePool, rest \in SeqsUpTo({Cont1, Cont2}, 1) :
        (Parsed /\ IsSystemLine(s) /\ file = <<s>> \o rest)
            => /\ Len(returned[1]) = 1
               /\ returned[1][1].text = Strip(Join(<<SystemText(s)>> \o
                      [i \in 1 .. Len(rest) |-> Content(rest[i])]))


----------------------------------------------------------------------------
(* Claims about the analyzer                                                *)

\* a call of a report has returned or raised
Called(name) == op[1] = name

\* what the reports return when there is nothing to count: no entries, and
\* every count 0
NeutralEmoji ==
    [total_emojis |-> 0, unique_emojis |-> 0, messages_with_emoji |-> 0,
     emoji_usage_percentage |-> 0, top_emojis |-> <<>>, author_emoji_stats |-> <<>>]

NeutralWords == [total_unique_words |-> 0, top_words |-> <<>>]

NeutralActivity ==
    [hourly |-> [i \in 1 .. 24 |-> <<i - 1, 0>>],
     weekday |-> [i \in 1 .. 7 |-> <<weekday_names[i], 0>>],
     monthly |-> <<>>,
     author_hourly |-> <<>>]

NeutralGhosting == [ghosting_events |-> <<>>]

NeutralHeatmap ==
    [heatmap |->
         [w \in 1 .. 7 |->
             [weekday |-> w - 1,
              weekday_name |-> weekday_names[w],
              hours |-> [h \in 1 .. 24 |-> [hour |-> h - 1, count |-> 0]]]],
     date_activity |-> <<>>,
     max_activity |-> 0,
     most_active_periods |-> <<>>]

\* the neutral structure of each of the 16 reports, by the report's name
Neutral ==
    [get_basic_stats |-> EmptyDict,
     get_emoji_stats |-> NeutralEmoji,
     get_word_stats |-> NeutralWords,
     get_activity_stats |-> NeutralActivity,
     get_message_length_stats |-> EmptyDict,
     get_interesting_stats |-> EmptyDict,
     get_ghosting_stats |-> NeutralGhosting,
     get_activity_heatmap |-> NeutralHeatmap,
     get_semantic_analysis |-> EmptyDict,
     get_message_series_stats |-> EmptyDict,
     get_reaction_speed_stats |-> EmptyDict,
     get_participant_balance |-> EmptyDict,
     get_emotional_analysis |-> EmptyDict,
     get_communication_style |-> EmptyDict,
     get_conflict_analysis |-> EmptyDict,
     get_seasonality_analysis |-> EmptyDict]

\* the aggregate of the 16 neutral structures under the keys of
\* get_full_analysis
NeutralFull ==
    [basic |-> Neutral.get_basic_stats,
     emoji |-> Neutral.get_emoji_stats,
     words |-> Neutral.get_word_stats,
     activity |-> Neutral.get_activity_stats,
     message_length |-> Neutral.get_message_length_stats,
     interesting |-> Neutral.get_interesting_stats,
     ghosting |-> Neutral.get_ghosting_stats,
     activity_heatmap |-> Neutral.get_activity_heatmap,
     semantic |-> Neutral.get_semantic_analysis,
     message_series |-> Neutral.get_message_series_stats,
     reaction_speed |-> Neutral.get_reaction_speed_stats,
     participant_balance |-> Neutral.get_participant_balance,
     emotional |-> Neutral.get_emotional_analysis,
     communication_style |-> Neutral.get_communication_style,
     conflict |-> Neutral.get_conflict_analysis,
     seasonality |-> Neutral.get_seasonality_analysis]

\* C8: each of the 16 reports, and get_full_analysis, called on an analyzer
\* that holds no messages does not raise and returns its neutral structure:
\* an empty dict, or a structure with no entries and all counts 0.
C8_EmptyInputIsNeutral ==
    (amessages = <<>> /\ (op[1] \in DOMAIN Neutral \/ Called("get_full_analysis"))) =>
        /\ ~Raised(result)
        /\ result.value = IF Called("get_full_analysis") THEN NeutralFull ELSE Neutral[op[1]]

\* the full analysis of no messages has returned, with the emoji report's
\* percentage in it
C8_Witness ==
    /\ amessages = <<>>
    /\ Called("get_full_analysis")
    /\ ~Raised(result)
    /\ result.value.emoji.emoji_usage_percentage = 0
    /\ result.value.basic = EmptyDict

\* the sum of the values of a dict f of integers
RECURSIVE SumOfKeys(_, _)
SumOfKeys(f, keys) ==
    IF keys = {} THEN 0
    ELSE LET k == CHOOSE k \in keys : TRUE IN f[k] + SumOfKeys(f, keys \ {k})

SumOfValues(f) == SumOfKeys(f, DOMAIN f)

\* x, a number of hundredths, is n / d rounded to two decimals: no number of
\* hundredths is nearer to n / d
IsRoundedTo2(x, n, d) ==
    LET off == x * d - 100 * n IN 2 * (IF off < 0 THEN 0 - off ELSE off) <= d

\* C9: for a non-empty message list get_basic_stats returns author_stats
\* whose values sum to total_messages, and avg_message_length equal to
\* total_chars / total_messages rounded to two decimals.
C9_BasicStatsSanity ==
    (Called("get_basic_stats") /\ amessages # <<>>) =>
        /\ ~Raised(result)
        /\ SumOfValues(result.value.author_stats) = result.value.total_messages
        /\ IsRoundedTo2(result.value.avg_message_length,
                        result.value.total_chars, result.value.total_messages)

\* three messages by two authors with 14 characters: the average 4.666...
\* is returned as 4.67
C9_Witness ==
    /\ Called("get_basic_stats")
    /\ Len(amessages) = 3
    /\ Cardinality(AuthorsOf(amessages)) = 2
    /\ result.value.total_chars = 14
    /\ result.value.avg_message_length = 467

\* the same letter, in either case
SameLetter(c, d) == c = d \/ {c, d} = {"a", "A"} \/ {c, d} = {"b", "B"}

\* text contains word, the case of the letters set aside
ContainsIgnoringCase(text, word) ==
    \E i \in 1 .. (Len(text) - Len(word) + 1) :
        \A k \in 1 .. Len(word) : SameLetter(text[i + k - 1], word[k])

\* the match of search_word that stands for message m
IsMatchOf(x, m) ==
    /\ x.datetime = IsoDateTime(m.datetime)
    /\ x.author = m.author
    /\ x.text = m.text

\* C10: a case-insensitive search_word for a non-empty word returns
\* total_occurrences equal to the sum of the count fields of its matches;
\* every message whose text contains the word, whatever the case, is in
\* matches exactly once, and no message without the word is in matches.
C10_SearchConsistency ==
    (Called("search_word") /\ op[2] # <<>> /\ op[3] = FALSE) =>
        LET r == result.value
            holding == SelectSeq(amessages, LAMBDA m : ContainsIgnoringCase(m.text, op[2]))
            times(q, test(_)) == Cardinality({i \in 1 .. Len(q) : test(q[i])})
        IN  /\ ~Raised(result)
            /\ r.total_occurrences = SumSeq([i \in 1 .. Len(r.matches) |-> r.matches[i].count])
            /\ Len(r.matches) = Len(holding)
            /\ \A j \in 1 .. Len(amessages) :
                   times(r.matches, LAMBDA x : IsMatchOf(x, amessages[j]))
                       = times(holding, LAMBDA m : m = amessages[j])

\* a search for "Ab" over a message without it and a message that holds it
\* twice in other case, present twice
C10_Witness ==
    /\ Called("search_word")
    /\ op[2] = <<"A", "b">>
    /\ op[3] = FALSE
    /\ Len(amessages) = 3
    /\ result.value.unique_messages = 2
    /\ result.value.total_occurrences = 4

----------------------------------------------------------------------------
(* Claims about the queries                                                 *)

\* the messages of the analyzer whose date is written as the string date
OnDate(date) == SelectSeq(amessages, LAMBDA msg : IsoDate(msg.date) = date)

\* the result in hand is an explicit error result, not an exception
IsErrorResult == ~Raised(result) /\ "error" \in DOMAIN result.value

\* C11: for a date on which the analyzer holds at least one message,
\* get_day_analysis returns a basic report whose total_messages is the
\* number of messages of the whole sequence with that date; for a date with
\* no message it returns an explicit error result.
C11_DayCount ==
    Called("get_day_analysis") =>
        IF OnDate(op[2]) # <<>>
        THEN /\ ~Raised(result)
             /\ "basic" \in DOMAIN result.value
             /\ result.value.basic.total_messages = Len(OnDate(op[2]))
        ELSE IsErrorResult

\* a day analysis has returned for a day that has two of the analyzer's
\* three messages
C11_Witness ==
    /\ Called("get_day_analysis")
    /\ Len(amessages) = 3
    /\ Len(OnDate(op[2])) = 2
    /\ result.value.basic.total_messages = 2

\* the keys of get_full_analysis (lines 1210-1227)
FullAnalysisKeys ==
    {"basic", "emoji", "words", "activity", "message_length", "interesting",
     "ghosting", "activity_heatmap", "semantic", "message_series", "reaction_speed",
     "participant_balance", "emotional", "communication_style", "conflict",
     "seasonality"}

\* C12: for a date with at least one message, get_day_analysis returns all
\* 16 reports of get_full_analysis, each equal to the report over the
\* messages of that date, and the times of the day's first and last message.
C12_DayAnalysisIsFullAnalysis ==
    (Called("get_day_analysis") /\ OnDate(op[2]) # <<>>) =>
        /\ ~Raised(result)
        /\ {"first_message_time", "last_message_time"} \subseteq DOMAIN result.value
        /\ \E authors \in Orders(AuthorsOf(OnDate(op[2]))) :
               LET full == get_full_analysis(OnDate(op[2]), authors)
               IN  /\ ~Raised(full)
                   /\ \A k \in FullAnalysisKeys :
                          /\ k \in DOMAIN result.value
                          /\ result.value[k] = full.value[k]

\* the target of the context asked for, when the timestamp string is one
\* of a time without offset: the datetime to the second, and the fraction
Target == TargetOf(op[2]).value

IsPlainTimestamp == ~Raised(TargetOf(op[2])) /\ ~TargetOf(op[2]).value.aware

\* how far message i of the analyzer is from the target, in milliseconds
Apart(i) ==
    LET ms == 1000 * (Seconds(amessages[i].datetime) - Seconds(Target.dt))
                  - Target.millisecond
    IN  IF ms < 0 THEN 0 - ms ELSE ms

\* the messages whose timestamp is the target's at second precision
AtTarget == {i \in 1 .. Len(amessages) : amessages[i].datetime = Target.dt}

\* the messages that are nearest to the target among those less than
\* limit milliseconds from it, or at most that far when inclusive
Nearest(limit, inclusive) ==
    LET near == {i \in 1 .. Len(amessages) :
                    Apart(i) < limit \/ (inclusive /\ Apart(i) = limit)}
    IN  {i \in near : \A j \in near : Apart(i) <= Apart(j)}

\* the context in hand is the window of size op[3] around message t
IsContextAround(t) ==
    LET lo == IF t - op[3] < 1 THEN 1 ELSE t - op[3]
        hi == IF t + op[3] > Len(amessages) THEN Len(amessages) ELSE t + op[3]
        r == result.value
    IN  /\ ~Raised(result)
        /\ DOMAIN r = {"target_index", "messages", "total"}
        /\ r.target_index = t - lo
        /\ r.total = hi - lo + 1
        /\ Len(r.messages) = hi - lo + 1
        /\ \A k \in 1 .. (hi - lo + 1) :
               /\ r.messages[k].datetime = IsoDateTime(amessages[lo + k - 1].datetime)
               /\ r.messages[k].author = amessages[lo + k - 1].author
               /\ r.messages[k].text = amessages[lo + k - 1].text

\* the result in hand is the not-found error result
IsNotFound == IsErrorResult /\ result.value.error = "Soobshchenie ne naideno"

\* C15: get_message_context takes as its target the first message in file
\* order whose timestamp equals the target at second precision; if there is
\* none, the message of the smallest deviation among those at most 60
\* seconds from the target; if there is none either, it returns a not-found
\* error result.
C15_TargetLocation ==
    (Called("get_message_context") /\ IsPlainTimestamp) =>
        IF AtTarget # {} THEN IsContextAround(MinOf(AtTarget))
        ELSE IF Nearest(60000, TRUE) # {}
        THEN \E t \in Nearest(60000, TRUE) : IsContextAround(t)
        ELSE IsNotFound

\* the same with the tolerance the code has: less than 60 seconds
C15_TargetWithin60 ==
    (Called("get_message_context") /\ IsPlainTimestamp) =>
        IF AtTarget # {} THEN IsContextAround(MinOf(AtTarget))
        ELSE IF Nearest(60000, FALSE) # {}
        THEN IsContextAround(MinOf(Nearest(60000, FALSE)))
        ELSE IsNotFound

\* the message the context in hand was found around: the first at the
\* target's second, and else the first of the nearest within the minute
Found ==
    IF AtTarget # {} THEN MinOf(AtTarget) ELSE MinOf(Nearest(60000, FALSE))

\* C16: when get_message_context finds its target at index t of L messages
\* with window size N >= 0, the returned messages are the messages at
\* indices max(0, t - N) .. min(L - 1, t + N) in file order, and
\* target_index is the place of the target in that window.
C16_ContextWindow ==
    (/\ Called("get_message_context")
     /\ ~Raised(result)
     /\ "messages" \in DOMAIN result.value) =>
        LET t == Found - 1
            L == Len(amessages)
            N == op[3]
            first == IF t - N > 0 THEN t - N ELSE 0
            last == IF t + N < L - 1 THEN t + N ELSE L - 1
            r == result.value
        IN  /\ r.total = last - first + 1
            /\ Len(r.messages) = last - first + 1
            /\ \A k \in first .. last :
                   /\ r.messages[k - first + 1].datetime = IsoDateTime(amessages[k + 1].datetime)
                   /\ r.messages[k - first + 1].author = amessages[k + 1].author
                   /\ r.messages[k - first + 1].text = amessages[k + 1].text
            /\ r.target_index = t - first
            /\ r.target_index + 1 \in 1 .. Len(r.messages)

\* a context of window size 1 has returned around the last of three
\* messages: the window is cut at the end of the sequence
C16_Witness ==
    /\ Called("get_message_context")
    /\ op[3] = 1
    /\ Len(amessages) = 3
    /\ ~Raised(result)
    /\ "messages" \in DOMAIN result.value
    /\ Found = 3
    /\ result.value.total = 2
    /\ result.value.target_index = 1

\* C17: get_message_context never raises: for every message sequence and
\* every timestamp string (unparseable, a date alone, a date with a time,
\* with or without a trailing Z) it returns a context or an explicit error
\* result.
C17_ContextNeverRaises ==
    Called("get_message_context") =>
        /\ ~Raised(result)
        /\ \/ "error" \in DOMAIN result.value
           \/ "messages" \in DOMAIN result.value

\* a date is given to the hour slice: the argument is neither None nor the
\* empty string (line 537)
DateGiven == op[3] # <<>> /\ op[3][1] # <<>>

\* the messages of the analyzer in the hour asked for, and on the date when
\* one is given
InSlice ==
    SelectSeq(amessages,
              LAMBDA msg : /\ msg.hour = op[2]
                           /\ DateGiven => IsoDate(msg.date) = op[3][1])

\* datetime, author and text of a message, as the slice returns them
SliceEntry(msg) ==
    [datetime |-> IsoDateTime(msg.datetime), author |-> msg.author, text |-> msg.text]

\* how often entry e is among the entries of the sequence q of messages
TimesIn(e, q) ==
    Cardinality({k \in 1 .. Len(q) :
                    [datetime |-> q[k].datetime, author |-> q[k].author, text |-> q[k].text] = e})

\* C18: get_messages_by_hour(h, d) returns exactly the messages whose hour
\* is h, and whose date is d when a date is given, sorted by timestamp
\* ascending; when no message matches, a d that is no valid date string
\* included, it returns an explicit error result and does not raise.
C18_HourSlice ==
    Called("get_messages_by_hour") =>
        IF InSlice = <<>> THEN IsErrorResult
        ELSE LET r == result.value
                 entries == [k \in 1 .. Len(InSlice) |-> SliceEntry(InSlice[k])]
             IN  /\ ~Raised(result)
                 /\ "messages" \in DOMAIN r
                 /\ r.total_messages = Len(InSlice)
                 /\ Len(r.messages) = Len(InSlice)
                 /\ \A k \in 1 .. Len(entries) :
                        TimesIn(entries[k], r.messages) = TimesIn(entries[k], entries)
                 /\ \A k \in 2 .. Len(r.messages) :
                        IsoKey(r.messages[k - 1].datetime) <= IsoKey(r.messages[k].datetime)

\* an hour slice of a given date has returned two of three messages, the
\* third being of the hour on another date, the later of the two first in
\* the file
C18_Witness ==
    /\ Called("get_messages_by_hour")
    /\ DateGiven
    /\ Len(amessages) = 3
    /\ Len(SelectSeq(amessages, LAMBDA msg : msg.hour = op[2])) = 3
    /\ Len(InSlice) = 2
    /\ Seconds(InSlice[1].datetime) > Seconds(InSlice[2].datetime)
    /\ ~Raised(result)
    /\ result.value.total_messages = 2

\* C19: every operation of the analyzer, each report, the full analysis,
\* the search, the context lookup, the hour slice and the day analysis, in
\* any order and any number of times, leaves the analyzer's message
\* sequence as it was: its length, its order and every field of every
\* message.
C19_MessagesUnchanged == [][amessages' = amessages]_vars

\* an hour slice has returned two messages and more in another order than
\* the analyzer holds them in
C19_Witness ==
    /\ Called("get_messages_by_hour")
    /\ ~Raised(result)
    /\ "messages" \in DOMAIN result.value
    /\ Len(result.value.messages) >= 2
    /\ amessages # ByDatetime(amessages)

----------------------------------------------------------------------------
(* Claims about the ghosting report                                         *)

\* the seconds between message i - 1 and message i of the analyzer
GapBefore(i) == SecondsBetween(amessages[i - 1].datetime, amessages[i].datetime)

\* tenths is hours, in tenths, a nearest one to seconds / 3600
IsHoursToOneDecimal(tenths, seconds) ==
    LET off == 360 * tenths - seconds
    IN  2 * (IF off < 0 THEN 0 - off ELSE off) <= 360

\* C13: for a sequence of exactly two messages by different authors,
\* get_ghosting_stats reports exactly one event when the second message is
\* more than 24 hours after the first, with ghosted_by the first author,
\* responded_by the second and hours_silent the gap in hours rounded to one
\* decimal, and no event when the gap is 24 hours or less.
C13_TwoMessageGhosting ==
    (/\ Called("get_ghosting_stats")
     /\ Len(amessages) = 2
     /\ amessages[1].author # amessages[2].author) =>
        /\ ~Raised(result)
        /\ IF GapBefore(2) > 24 * 3600
           THEN /\ result.value.total_ghosting_events = 1
                /\ Len(result.value.top_ghosting_events) = 1
                /\ result.value.top_ghosting_events[1].ghosted_by = amessages[1].author
                /\ result.value.top_ghosting_events[1].responded_by = amessages[2].author
                /\ IsHoursToOneDecimal(result.value.top_ghosting_events[1].hours_silent,
                                       GapBefore(2))
           ELSE result.value.total_ghosting_events = 0

\* the same for two messages whose first author is not the empty name
C13_NamedFirstAuthor ==
    (amessages # <<>> /\ amessages[1].author # <<>>) => C13_TwoMessageGhosting

\* the adjacent pairs of the analyzer's messages that are a ghosting event:
\* the later author is another than the earlier, more than 24 hours later
GhostingPairs ==
    {i \in 2 .. Len(amessages) :
        /\ amessages[i].author # amessages[i - 1].author
        /\ GapBefore(i) > 24 * 3600}

\* the event a single pass over the adjacent pairs records for pair i
PairEvent(i) ==
    [ghosted_by |-> amessages[i - 1].author,
     ghosted_from |-> IsoDateTime(amessages[i - 1].datetime),
     responded_by |-> amessages[i].author,
     responded_at |-> IsoDateTime(amessages[i].datetime)]

\* who, when and to whom of a reported event
EventKey(e) ==
    [ghosted_by |-> e.ghosted_by, ghosted_from |-> e.ghosted_from,
     responded_by |-> e.responded_by, responded_at |-> e.responded_at]

\* C20: with any number of authors, get_ghosting_stats records one event
\* for a pair of adjacent messages exactly when the later author differs
\* from the earlier and the gap exceeds 24 hours, with ghosted_by the
\* earlier and responded_by the later author: the events are those of a
\* single pass over the adjacent pairs.
C20_SinglePassEquivalence ==
    (Called("get_ghosting_stats") /\ Len(amessages) >= 2) =>
        /\ ~Raised(result)
        /\ result.value.total_ghosting_events = Cardinality(GhostingPairs)
        /\ {EventKey(result.value.top_ghosting_events[k]) :
               k \in 1 .. Len(result.value.top_ghosting_events)}
             = {PairEvent(i) : i \in GhostingPairs}

----------------------------------------------------------------------------
(* Claims about the series report                                           *)

\* message i of the analyzer does not continue the run of the message
\* before it: it is the first, or by another author, or 300 seconds or more
\* after it
StartsRun(i) ==
    \/ i = 1
    \/ amessages[i].author # amessages[i - 1].author
    \/ GapBefore(i) >= 300

\* the length of the maximal run that starts at message i
RunLength(i) ==
    LET next == {j \in (i + 1) .. Len(amessages) : StartsRun(j)}
    IN  (IF next = {} THEN Len(amessages) + 1 ELSE MinOf(next)) - i

\* where the maximal runs of three messages and more by author a start
LongRuns(a) ==
    {i \in 1 .. Len(amessages) :
        StartsRun(i) /\ amessages[i].author = a /\ RunLength(i) >= 3}

\* how many of the runs of a have between lo and hi messages
RunsBetween(a, lo, hi) ==
    Cardinality({i \in LongRuns(a) : lo <= RunLength(i) /\ RunLength(i) <= hi})

RECURSIVE SumOfRuns(_)
SumOfRuns(S) ==
    IF S = {} THEN 0
    ELSE LET i == CHOOSE i \in S : TRUE IN RunLength(i) + SumOfRuns(S \ {i})

\* C14: get_message_series_stats records every maximal run of n messages
\* in a row by one author, each less than 300 seconds after the one before,
\* as exactly one series of length n of that author if and only if n >= 3,
\* and counts it in exactly one of the buckets 3-5, 6-10, 11-20 and 20+,
\* the one that contains n.
C14_SeriesAreMaximalRuns ==
    Called("get_message_series_stats") =>
        /\ ~Raised(result)
        /\ IF Len(amessages) < 2 THEN result.value = EmptyDict
           ELSE LET series == result.value.author_series
                IN  /\ DOMAIN series = {a \in AuthorsOf(amessages) : LongRuns(a) # {}}
                    /\ \A a \in DOMAIN series :
                           /\ series[a].total_series = Cardinality(LongRuns(a))
                           /\ series[a].total_messages_in_series = SumOfRuns(LongRuns(a))
                           /\ series[a].max_series_length
                                  = MaxOf({RunLength(i) : i \in LongRuns(a)})
                           /\ series[a].series_distribution
                                  = [from3to5 |-> RunsBetween(a, 3, 5),
                                     from6to10 |-> RunsBetween(a, 6, 10),
                                     from11to20 |-> RunsBetween(a, 11, 20),
                                     over20 |-> RunsBetween(a, 21, Len(amessages))]

\* the series report has returned for four messages by A, 60 seconds apart:
\* one series of four messages, in the bucket 3-5
C14_Witness ==
    /\ Called("get_message_series_stats")
    /\ Len(amessages) = 4
    /\ \A i \in 1 .. 4 : amessages[i].author = <<"A">>
    /\ \A i \in 2 .. 4 : GapBefore(i) = 60
    /\ result.value.author_series[<<"A">>].total_series = 1
    /\ result.value.author_series[<<"A">>].total_messages_in_series = 4
    /\ result.value.author_series[<<"A">>].series_distribution
           = [from3to5 |-> 1, from6to10 |-> 0, from11to20 |-> 0, over20 |-> 0]

----------------------------------------------------------------------------
(* Claims about the response reports                                        *)

\* the place of message i of msgs in timestamp order, messages of one
\* timestamp in the order of the list
TimeRank(msgs, i) ==
    1 + Cardinality({j \in 1 .. Len(msgs) :
            \/ Seconds(msgs[j].datetime) < Seconds(msgs[i].datetime)
            \/ Seconds(msgs[j].datetime) = Seconds(msgs[i].datetime) /\ j < i})

\* the pairs of messages next to each other in timestamp order that are a
\* response: another author, more than 0 and less than 1440 minutes later
ResponsePairs(msgs) ==
    {p \in (1 .. Len(msgs)) \X (1 .. Len(msgs)) :
        /\ TimeRank(msgs, p[2]) = TimeRank(msgs, p[1]) + 1
        /\ msgs[p[1]].author # msgs[p[2]].author
        /\ Seconds(msgs[p[2]].datetime) - Seconds(msgs[p[1]].datetime) > 0
        /\ Seconds(msgs[p[2]].datetime) - Seconds(msgs[p[1]].datetime) < 1440 * 60}

\* the orders the messages of msgs can stand in
Reorderings(msgs) ==
    {[i \in 1 .. Len(msgs) |-> msgs[f[i]]] :
        f \in {g \in [1 .. Len(msgs) -> 1 .. Len(msgs)] :
                  \A i, j \in 1 .. Len(msgs) : i # j => g[i] # g[j]}}

DistinctTimes(msgs) ==
    \A i, j \in 1 .. Len(msgs) : i # j => msgs[i].datetime # msgs[j].datetime

\* C23 as stated: total_responses_analyzed is the number of response pairs in
\* timestamp order, and is the same for every order of the messages in the
\* file.
C23_ResponseCountAnyOrder ==
    (Called("get_interesting_stats") /\ amessages # <<>>)
        => /\ result.value.total_responses_analyzed = Cardinality(ResponsePairs(amessages))
           /\ \A q \in Reorderings(amessages) :
                  get_interesting_stats(q).value.total_responses_analyzed
                      = result.value.total_responses_analyzed

\* C23, amended: total_responses_analyzed is the number of response pairs in
\* timestamp order, messages of one timestamp taken in file order; it is the
\* same for every order of the messages when no two share a timestamp.
C23_ResponseCount ==
    (Called("get_interesting_stats") /\ amessages # <<>>)
        => /\ result.value.total_responses_analyzed = Cardinality(ResponsePairs(amessages))
           /\ DistinctTimes(amessages) =>
                  \A q \in Reorderings(amessages) :
                      get_interesting_stats(q).value.total_responses_analyzed
                          = result.value.total_responses_analyzed

\* A at 10:00:00, B at 10:05:00 and B at 10:05:30, given out of order: one
\* response, of 5 minutes
C23_Witness ==
    /\ Called("get_interesting_stats")
    /\ amessages = <<MakeMessage(Stamp(1, 1, 2024, 10, 5, 30), <<"B">>, <<"a">>),
                     MakeMessage(Stamp(1, 1, 2024, 10, 0, 0), <<"A">>, <<"a">>),
                     MakeMessage(Stamp(1, 1, 2024, 10, 5, 0), <<"B">>, <<"a">>)>>
    /\ result.value.total_responses_analyzed = 1
    /\ result.value.avg_response_time_minutes = 500

\* the seconds from the message before message i of the chat to message i
Latency(i) == Seconds(amessages[i].datetime) - Seconds(amessages[i - 1].datetime)

\* the messages of author a that follow a message of another author
RepliesOf(a) ==
    {i \in 2 .. Len(amessages) :
        amessages[i].author = a /\ amessages[i - 1].author # a}

\* C24: get_reaction_speed_stats records every message behind a message of
\* another author as one response of its author, in the one bucket its
\* latency lies in; an author without such a message has no responses.
C24_EveryReplyRecorded ==
    (Called("get_reaction_speed_stats") /\ Len(amessages) >= 2)
        => \A a \in AuthorsOf(amessages) :
               LET n(lo, hi) == Cardinality({i \in RepliesOf(a) :
                                    lo <= Latency(i) /\ Latency(i) < hi})
               IN  IF RepliesOf(a) = {}
                   THEN /\ a \notin DOMAIN result.value.avg_response_times
                        /\ a \notin DOMAIN result.value.response_distribution
                   ELSE /\ a \in DOMAIN result.value.avg_response_times
                        /\ result.value.avg_response_times[a].total_responses
                               = Cardinality(RepliesOf(a))
                        /\ result.value.response_distribution[a] =
                               [under_5min |-> Cardinality({i \in RepliesOf(a) :
                                                   Latency(i) < 5 * 60}),
                                under_1hour |-> n(5 * 60, 3600),
                                under_1day |-> n(3600, 24 * 3600),
                                over_1day |-> Cardinality({i \in RepliesOf(a) :
                                                  Latency(i) >= 24 * 3600})]

\* the messages of author a, the first message of the chat aside, that come
\* more than six hours after the message before them
LateMessagesOf(a) ==
    {i \in 2 .. Len(amessages) : amessages[i].author = a /\ Latency(i) > 6 * 60 * 60}

\* C25: conversation_starters[a] is the number of messages of a, the first
\* message aside, whose gap to the message before strictly exceeds 6 hours,
\* whoever wrote that message; an author without such a message has no entry.
C25_ConversationStarters ==
    (Called("get_reaction_speed_stats") /\ Len(amessages) >= 2)
        => \A a \in AuthorsOf(amessages) :
               IF LateMessagesOf(a) = {}
               THEN a \notin DOMAIN result.value.conversation_starters
               ELSE /\ a \in DOMAIN result.value.conversation_starters
                    /\ result.value.conversation_starters[a] = Cardinality(LateMessagesOf(a))

\* A writes again after exactly 6 hours (no start) and then, still behind a
\* message of its own, after more than 6 hours (one start)
C25_Witness ==
    /\ Called("get_reaction_speed_stats")
    /\ amessages = <<MakeMessage(Stamp(1, 1, 2024, 10, 5, 0), <<"A">>, <<"a">>),
                     MakeMessage(Stamp(1, 1, 2024, 16, 5, 0), <<"A">>, <<"a">>),
                     MakeMessage(Stamp(2, 1, 2024, 10, 5, 0), <<"A">>, <<"a">>)>>
    /\ result.value.conversation_starters = (<<"A">> :> 1)

----------------------------------------------------------------------------
(* Claims about the activity heatmap                                        *)

\* the cells of the heatmap, numbered weekday by weekday, hour by hour
Cells == 0 .. (7 * 24 - 1)

CellCount(c) ==
    Cardinality({i \in 1 .. Len(amessages) :
        amessages[i].weekday = c \div 24 /\ amessages[i].hour = c % 24})

\* the cells that hold a message
UsedCells == {24 * amessages[i].weekday + amessages[i].hour : i \in 1 .. Len(amessages)}

\* the cells whose count is the greatest of all cells and not zero (a cell of
\* the greatest count holds a message, and so do the cells compared with)
BusiestCells ==
    {c \in UsedCells : \A d \in UsedCells : CellCount(d) <= CellCount(c)}

\* the listed period is cell c
IsCell(period, c) ==
    /\ period.weekday = weekday_names[(c \div 24) + 1]
    /\ period.hour = c % 24
    /\ period.count = CellCount(c)

\* C26 as stated: most_active_periods lists every cell whose count is the
\* greatest and not zero, however many there are, and no other cell.
C26_AllBusiestCells ==
    Called("get_activity_heatmap")
        => /\ Len(result.value.most_active_periods) = Cardinality(BusiestCells)
           /\ \A c \in BusiestCells :
                  \E i \in 1 .. Len(result.value.most_active_periods) :
                      IsCell(result.value.most_active_periods[i], c)

\* C26, amended: most_active_periods lists the cells whose count is the
\* greatest and not zero, in the order of weekday and hour, and no other
\* cell; of more than ten such cells it lists the first ten.
C26_FirstTenBusiestCells ==
    Called("get_activity_heatmap")
        => \A busiest \in {BusiestCells} :
               LET r == result.value.most_active_periods
               IN  /\ Len(r) = IF Cardinality(busiest) > 10
                               THEN 10 ELSE Cardinality(busiest)
                   /\ \A i \in 1 .. Len(r) :
                          \E c \in busiest :
                              /\ Cardinality({d \in busiest : d < c}) = i - 1
                              /\ IsCell(r[i], c)

\* eleven cells with one message each: ten are listed
C26_Witness ==
    /\ Called("get_activity_heatmap")
    /\ Cardinality(BusiestCells) = 11
    /\ Len(result.value.most_active_periods) = 10
    /\ result.value.max_activity = 1

----------------------------------------------------------------------------
(* Claims about the length reports                                          *)

\* the number of messages of the chat whose text has lo .. hi characters
LengthsWithin(lo, hi) ==
    Cardinality({i \in 1 .. Len(amessages) :
        lo <= Len(amessages[i].text) /\ Len(amessages[i].text) <= hi})

\* the greatest text length of the pool
LongestText == CHOOSE n \in TextLengthPool : \A k \in TextLengthPool : k <= n

\* C27: get_semantic_analysis counts every message in one length bucket:
\* short under 10 characters, medium 10 to 50 characters, long over 50; the
\* three counts add up to the number of messages.
C27_LengthBuckets ==
    (Called("get_semantic_analysis") /\ amessages # <<>>)
        => LET d == result.value.message_length_distribution
           IN  /\ d.short = LengthsWithin(0, 9)
               /\ d.medium = LengthsWithin(10, 50)
               /\ d.long = LengthsWithin(51, LongestText)
               /\ d.short + d.medium + d.long = Len(amessages)

\* the k-th smallest text length of the chat
KthLength(k) ==
    CHOOSE v \in {Len(amessages[i].text) : i \in 1 .. Len(amessages)} :
        /\ Cardinality({i \in 1 .. Len(amessages) : Len(amessages[i].text) < v}) < k
        /\ Cardinality({i \in 1 .. Len(amessages) : Len(amessages[i].text) <= v}) >= k

\* C28: median_length is the median of the text lengths: the middle length of
\* an odd number of messages, the mean of the two middle lengths of an even
\* number.
C28_MedianLength ==
    (Called("get_message_length_stats") /\ amessages # <<>>)
        => LET n == Len(amessages)
           IN  IF n % 2 = 1
               THEN result.value.median_length = KthLength((n + 1) \div 2)
               ELSE 2 * result.value.median_length
                        = KthLength(n \div 2) + KthLength((n \div 2) + 1)

----------------------------------------------------------------------------
(* Claims about the communication style report                              *)

\* the messages of the chat by author a
MessagesOf(a) == {i \in 1 .. Len(amessages) : amessages[i].author = a}

\* the emoji characters in the messages of author a
RECURSIVE EmojiTotal(_)
EmojiTotal(I) ==
    IF I = {} THEN 0
    ELSE LET i == CHOOSE i \in I : TRUE
         IN  Len(EmojisIn(amessages[i].text)) + EmojiTotal(I \ {i})

\* C29: emojis_per_message of every author is the number of emoji characters
\* in the author's messages divided by the number of the author's messages,
\* rounded to one decimal.
C29_EmojisPerMessage ==
    (Called("get_communication_style") /\ amessages # <<>>)
        => \A a \in AuthorsOf(amessages) :
               result.value.author_styles[a].emojis_per_message
                   = Rounded(EmojiTotal(MessagesOf(a)), Cardinality(MessagesOf(a)), 1)

----------------------------------------------------------------------------
(* Claims about the web layer                                               *)

\* what parse() returns for the uploaded file at the path
ParsedUpload(path) == ParseMessages(<<>>, uploads[path])

\* the analyses get_full_analysis can return for the messages
AnalysesOf(msgs) ==
    {get_full_analysis(msgs, authors) : authors \in Orders(AuthorsOf(msgs))}

\* the caches hold nothing, or what was parsed from the file at the path
CachesOf(path) ==
    /\ analyzer_instance # <<>> => analyzer_instance[1].messages = ParsedUpload(path)
    /\ analysis_cache # <<>> => Value(analysis_cache[1]) \in AnalysesOf(ParsedUpload(path))

\* the response sent last answers an analysis request with the analysis of
\* the file at the path
AnswersAnalysisOf(path) ==
    /\ response.status = 200
    /\ response.body # <<>>
    /\ Value(response.body[1]) \in AnalysesOf(ParsedUpload(path))

\* C30: however the requests interleave, once the uploads have completed the
\* cached analysis and the cached analyzer hold nothing parsed from a file
\* that was replaced, and an analysis request received after the upload has
\* completed is answered with the analysis of the uploaded file.
C30_NoStaleCache ==
    /\ (current_chat_file # <<>> /\ ~UploadInFlight) => CachesOf(current_chat_file[1])
    /\ (response # <<>> /\ response.kind = "analysis" /\ response.quiet)
           => AnswersAnalysisOf(response.after[1])

\* C30, the answers alone
C30_FreshAnswers ==
    (response # <<>> /\ response.kind = "analysis" /\ response.quiet /\ response.body # <<>>)
        => AnswersAnalysisOf(response.after[1])

====
